---- MODULE Spec2Model ----
(***************************************************************************)
(* Model of the field-scoped JSON encoders of go-api-router                *)
(* (response.go: JSONEncodeHierarchy, JSONEncode, jsonMap) together with   *)
(* the helpers they call (SnakeCase, FindString) and the behaviour of the  *)
(* standard encoding/json encoder they write through.                      *)
(*                                                                         *)
(* Strings of the program (field names, json tags, allow-list entries,     *)
(* object keys) are sequences of one-character strings, so that the code's *)
(* character-level operations (first-byte tests, the camel case regular    *)
(* expression, splitting at a comma) are computed and not assumed.         *)
(* Identifiers are ASCII.                                                  *)
(***************************************************************************)
EXTENDS Integers, Sequences, FiniteSets, TLC

(***************************************************************************)
(* Characters                                                              *)
(***************************************************************************)
LowerSeq ==
    << "a", "b", "c", "d", "e", "f", "g", "h", "i", "j", "k", "l", "m",
       "n", "o", "p", "q", "r", "s", "t", "u", "v", "w", "x", "y", "z" >>

UpperSeq ==
    << "A", "B", "C", "D", "E", "F", "G", "H", "I", "J", "K", "L", "M",
       "N", "O", "P", "Q", "R", "S", "T", "U", "V", "W", "X", "Y", "Z" >>

DigitSeq ==
    << "0", "1", "2", "3", "4", "5", "6", "7", "8", "9" >>

\* The characters of the model in ascending byte order.
ByteOrder ==
    << "!", ",", "-" >> \o DigitSeq \o UpperSeq \o << "_" >> \o LowerSeq

Range(s) == { s[i] : i \in DOMAIN s }

IsLl(c) == c \in Range(LowerSeq)

IsLu(c) == c \in Range(UpperSeq)

IsDigit(c) == c \in Range(DigitSeq)

ByteOf(c) == CHOOSE i \in DOMAIN ByteOrder : ByteOrder[i] = c

ToUpperChar(c) ==
    IF IsLl(c) THEN UpperSeq[CHOOSE i \in DOMAIN LowerSeq : LowerSeq[i] = c] ELSE c

ToLowerChar(c) ==
    IF IsLu(c) THEN LowerSeq[CHOOSE i \in DOMAIN UpperSeq : UpperSeq[i] = c] ELSE c

ToLower(s) == [i \in DOMAIN s |-> ToLowerChar(s[i])]

\* strings.Replace(s, "_", "", -1)
RECURSIVE RemoveUnderscores(_)
RemoveUnderscores(s) ==
    IF s = << >> THEN << >>
    ELSE IF Head(s) = "_" THEN RemoveUnderscores(Tail(s))
    ELSE << Head(s) >> \o RemoveUnderscores(Tail(s))

\* strings.Join(words, sep)
RECURSIVE Join(_, _)
Join(words, sep) ==
    IF words = << >> THEN << >>
    ELSE IF Len(words) = 1 THEN words[1]
    ELSE words[1] \o sep \o Join(Tail(words), sep)

\* strings.Split(s, ",")[0]
RECURSIVE FirstComponent(_)
FirstComponent(s) ==
    IF s = << >> THEN << >>
    ELSE IF Head(s) = "," THEN << >>
    ELSE << Head(s) >> \o FirstComponent(Tail(s))

\* byte-wise s < t, the order in which encoding/json writes map keys
RECURSIVE StrLess(_, _)
StrLess(s, t) ==
    IF t = << >> THEN FALSE
    ELSE IF s = << >> THEN TRUE
    ELSE IF Head(s) = Head(t) THEN StrLess(Tail(s), Tail(t))
    ELSE ByteOf(Head(s)) < ByteOf(Head(t))

(***************************************************************************)
(* SnakeCase: camelCaseRe.FindAllString, then lower-casing and joining.    *)
(*   (?:^[\p{Ll}]|API|JSON|IP|URL|_?\d+|_|[\p{Lu}]+)[\p{Ll}]*              *)
(* The alternatives are tried in order at the leftmost position; the       *)
(* repetitions are greedy and the trailing [\p{Ll}]* always succeeds, so   *)
(* the first alternative that matches decides the match.                   *)
(***************************************************************************)
RECURSIVE LlRun(_, _)
LlRun(s, i) == IF i <= Len(s) /\ IsLl(s[i]) THEN 1 + LlRun(s, i + 1) ELSE 0

RECURSIVE LuRun(_, _)
LuRun(s, i) == IF i <= Len(s) /\ IsLu(s[i]) THEN 1 + LuRun(s, i + 1) ELSE 0

RECURSIVE DigitRun(_, _)
DigitRun(s, i) == IF i <= Len(s) /\ IsDigit(s[i]) THEN 1 + DigitRun(s, i + 1) ELSE 0

HasPrefixAt(s, i, lit) ==
    /\ i + Len(lit) - 1 <= Len(s)
    /\ \A j \in DOMAIN lit : s[i + j - 1] = lit[j]

\* HeadLen of a pattern without the alternatives API, JSON, IP and URL
HeadLenNoAcronyms(s, i) ==
    IF i = 1 /\ IsLl(s[1]) THEN 1
    ELSE IF s[i] = "_" /\ DigitRun(s, i + 1) > 0 THEN 1 + DigitRun(s, i + 1)
    ELSE IF DigitRun(s, i) > 0 THEN DigitRun(s, i)
    ELSE IF s[i] = "_" THEN 1
    ELSE LuRun(s, i)

\* length matched at position i by the group of alternatives, 0 if none matches
HeadLen(s, i) ==
    IF i = 1 /\ IsLl(s[1]) THEN 1
    ELSE IF HasPrefixAt(s, i, << "A", "P", "I" >>) THEN 3
    ELSE IF HasPrefixAt(s, i, << "J", "S", "O", "N" >>) THEN 4
    ELSE IF HasPrefixAt(s, i, << "I", "P" >>) THEN 2
    ELSE IF HasPrefixAt(s, i, << "U", "R", "L" >>) THEN 3
    ELSE IF s[i] = "_" /\ DigitRun(s, i + 1) > 0 THEN 1 + DigitRun(s, i + 1)
    ELSE IF DigitRun(s, i) > 0 THEN DigitRun(s, i)
    ELSE IF s[i] = "_" THEN 1
    ELSE LuRun(s, i)

\* length of the whole match whose group matched h characters at position i
MatchLen(s, i, h) == IF h = 0 THEN 0 ELSE h + LlRun(s, i + h)

RECURSIVE FindAllString(_, _)
\* the matches from position i on, n being the length of the match at i
FindAllFrom(s, i, n) ==
    IF n = 0 THEN FindAllString(s, i + 1)
    ELSE << SubSeq(s, i, i + n - 1) >> \o FindAllString(s, i + n)

FindAllString(s, i) ==
    IF i > Len(s) THEN << >>
    ELSE FindAllFrom(s, i, MatchLen(s, i, HeadLen(s, i)))

\* words[i] = strings.ToLower(strings.Replace(words[i], "_", "", -1))
LowerWords(words) == [i \in DOMAIN words |-> ToLower(RemoveUnderscores(words[i]))]

SnakeCase(str) == Join(LowerWords(FindAllString(str, 1)), << "_" >>)

\* index of the first instance of needle in haystack (0-based), -1 if absent
FindString(needle, haystack) ==
    IF \E i \in DOMAIN haystack : haystack[i] = needle
    THEN (CHOOSE i \in DOMAIN haystack :
              /\ haystack[i] = needle
              /\ \A j \in 1 .. (i - 1) : haystack[j] # needle) - 1
    ELSE -1

(***************************************************************************)
(* Go values as seen through reflection.                                   *)
(*   kind "int"    : num is the integer                                    *)
(*   kind "struct" : items is the sequence of fields, in declaration order *)
(*   kind "ptr"    : items is << pointee >>, or << >> for a nil pointer    *)
(*   kind "slice"  : items are the elements; num = 0 marks a nil slice     *)
(*   kind "chan"   : a value encoding/json cannot marshal                  *)
(* A field is [name, tag, anon, val]: the declared name, the value of the  *)
(* json struct tag (empty when there is none), whether the field is        *)
(* embedded, and the field's value.                                        *)
(***************************************************************************)
IntV(n) == [kind |-> "int", num |-> n, items |-> << >>]

StructV(fields) == [kind |-> "struct", num |-> 0, items |-> fields]

PtrV(v) == [kind |-> "ptr", num |-> 1, items |-> << v >>]

NilPtr == [kind |-> "ptr", num |-> 0, items |-> << >>]

SliceV(elems) == [kind |-> "slice", num |-> 1, items |-> elems]

NilSlice == [kind |-> "slice", num |-> 0, items |-> << >>]

ChanV == [kind |-> "chan", num |-> 0, items |-> << >>]

Field(name, tag, anon, val) == [name |-> name, tag |-> tag, anon |-> anon, val |-> val]

\* reflect.StructField.IsExported: the declared name starts with an upper case letter
IsExported(name) == IsLu(name[1])

(***************************************************************************)
(* JSON text, as the sequence of its tokens.  A "str" token is a quoted    *)
(* string, "nl" the line feed json.Encoder appends, "sp" a blank.          *)
(***************************************************************************)
Tok(t, s, n) == [t |-> t, s |-> s, n |-> n]

LBrace == Tok("{", << >>, 0)

RBrace == Tok("}", << >>, 0)

LBrack == Tok("[", << >>, 0)

RBrack == Tok("]", << >>, 0)

Comma == Tok(",", << >>, 0)

Colon == Tok(":", << >>, 0)

Space == Tok("sp", << >>, 0)

NL == Tok("nl", << >>, 0)

Null == Tok("null", << >>, 0)

Str(s) == Tok("str", s, 0)

Num(n) == Tok("num", << >>, n)

(***************************************************************************)
(* encoding/json: the default (unfiltered) representation of a value.      *)
(* Marshal(v) is [err, toks]; err is TRUE for an unsupported type and then *)
(* nothing is produced.                                                    *)
(***************************************************************************)
HasOmitEmpty(tag) ==
    \E i \in DOMAIN tag :
        /\ tag[i] = ","
        /\ HasPrefixAt(tag, i + 1, << "o", "m", "i", "t", "e", "m", "p", "t", "y" >>)

IsEmptyValue(v) ==
    \/ v.kind = "int" /\ v.num = 0
    \/ v.kind = "ptr" /\ v.items = << >>
    \/ v.kind = "slice" /\ v.items = << >>

\* The fields encoding/json considers for a struct: exported fields under
\* their tag name or declared name, the fields of untagged embedded structs
\* one level deeper, nothing for a field tagged "-".
RECURSIVE TypeFields(_, _)
TypeFields(fields, depth) ==
    IF fields = << >> THEN << >>
    ELSE LET f == Head(fields)
             tagName == FirstComponent(f.tag)
             target == IF f.val.kind = "ptr" /\ f.val.items # << >>
                       THEN f.val.items[1] ELSE f.val
             here ==
                 IF f.tag = << "-" >> THEN << >>
                 ELSE IF f.anon /\ tagName = << >> /\ target.kind = "struct"
                 THEN TypeFields(target.items, depth + 1)
                 ELSE IF f.anon /\ tagName = << >> /\ f.val.kind = "ptr"
                 THEN << >>
                 ELSE IF ~IsExported(f.name) THEN << >>
                 ELSE << [name |-> IF tagName # << >> THEN tagName ELSE f.name,
                          tagged |-> tagName # << >>,
                          depth |-> depth,
                          omit |-> HasOmitEmpty(f.tag),
                          val |-> f.val] >>
         IN  here \o TypeFields(Tail(fields), depth)

\* Go's rule for several fields of one JSON name: the shallowest wins; among
\* several at that depth a single tagged one wins; otherwise none is written.
IsDominant(cands, i) ==
    LET same == { j \in DOMAIN cands : cands[j].name = cands[i].name }
        top == { j \in same : \A k \in same : cands[j].depth <= cands[k].depth }
        tagged == { j \in top : cands[j].tagged }
    IN  \/ top = {i}
        \/ Cardinality(top) > 1 /\ tagged = {i}

RECURSIVE Marshal(_)
RECURSIVE MarshalAll(_)
\* the results of marshalling each value of a sequence
MarshalAll(vals) ==
    IF vals = << >> THEN << >>
    ELSE << Marshal(Head(vals)) >> \o MarshalAll(Tail(vals))

RECURSIVE CommaJoin(_)
CommaJoin(parts) ==
    IF parts = << >> THEN << >>
    ELSE IF Len(parts) = 1 THEN parts[1]
    ELSE parts[1] \o << Comma >> \o CommaJoin(Tail(parts))

\* the text of an object with the given names, subs being the marshalled values
ObjectText(names, subs) ==
    IF \E i \in DOMAIN subs : subs[i].err
    THEN [err |-> TRUE, toks |-> << >>]
    ELSE [err |-> FALSE,
          toks |-> << LBrace >>
                   \o CommaJoin([i \in DOMAIN names |->
                                    << Str(names[i]), Colon >> \o subs[i].toks])
                   \o << RBrace >>]

\* the text of an array, subs being the marshalled elements
ArrayText(subs) ==
    IF \E i \in DOMAIN subs : subs[i].err
    THEN [err |-> TRUE, toks |-> << >>]
    ELSE [err |-> FALSE,
          toks |-> << LBrack >>
                   \o CommaJoin([i \in DOMAIN subs |-> subs[i].toks])
                   \o << RBrack >>]

\* the candidates that are written: dominant, and not empty under omitempty
WrittenFields(cands) ==
    SelectSeq([i \in DOMAIN cands |-> [c |-> cands[i], dom |-> IsDominant(cands, i)]],
              LAMBDA x : x.dom /\ ~(x.c.omit /\ IsEmptyValue(x.c.val)))

MarshalWritten(kept) ==
    ObjectText([i \in DOMAIN kept |-> kept[i].c.name],
               MarshalAll([i \in DOMAIN kept |-> kept[i].c.val]))

\* MarshalStruct that writes the first field only
MarshalStructFirstOnly(v) ==
    MarshalWritten(SelectSeq(WrittenFields(TypeFields(v.items, 0)),
                             LAMBDA x : x = WrittenFields(TypeFields(v.items, 0))[1]))

MarshalStruct(v) == MarshalWritten(WrittenFields(TypeFields(v.items, 0)))

Marshal(v) ==
    CASE v.kind = "int" -> [err |-> FALSE, toks |-> << Num(v.num) >>]
      [] v.kind = "chan" -> [err |-> TRUE, toks |-> << >>]
      [] v.kind = "ptr" ->
            IF v.items = << >> THEN [err |-> FALSE, toks |-> << Null >>]
            ELSE Marshal(v.items[1])
      [] v.kind = "slice" ->
            IF v.num = 0 THEN [err |-> FALSE, toks |-> << Null >>]
            ELSE ArrayText(MarshalAll(v.items))
      [] v.kind = "struct" -> MarshalStruct(v)

\* the keys of a map in the order encoding/json writes them (sorted)
RECURSIVE SortedKeys(_)
LeastKey(S) == CHOOSE k \in S : \A j \in S \ {k} : StrLess(k, j)

SortedFrom(S, least) == << least >> \o SortedKeys(S \ {least})

SortedKeys(S) == IF S = {} THEN << >> ELSE SortedFrom(S, LeastKey(S))

MarshalKeys(m, keys) ==
    ObjectText(keys, MarshalAll([i \in DOMAIN keys |-> m[keys[i]]]))

\* json.Marshal of a map[string]interface{}
MarshalMap(m) == MarshalKeys(m, SortedKeys(DOMAIN m))

\* json.Marshal of a []map[string]interface{}
MarshalMaps(maps) == ArrayText([i \in DOMAIN maps |-> MarshalMap(maps[i])])

(***************************************************************************)
(* The outcome of an encode call: the tokens written to the caller's sink, *)
(* the returned error ("nil", "marshal" for an encoding failure, "write"   *)
(* for an error of the sink) and whether the call panicked instead of      *)
(* returning.                                                              *)
(***************************************************************************)
Outcome(out, err, panic) == [out |-> out, err |-> err, panic |-> panic]

Panicked == Outcome(<< >>, "nil", TRUE)

\* (*json.Encoder).Encode: marshal into the encoder's own buffer, append a
\* line feed, then hand the whole text to the sink in one Write.
EncoderEncode(wfail, marshalled) ==
    IF marshalled.err THEN Outcome(<< >>, "marshal", FALSE)
    ELSE IF wfail THEN Outcome(<< >>, "write", FALSE)
    ELSE Outcome(marshalled.toks \o << NL >>, "nil", FALSE)

(***************************************************************************)
(* jsonMap: the field extractor of the flat encoder.                       *)
(* The result is [panic, m]; m maps each key to the stored value.          *)
(***************************************************************************)
NoFields == [k \in {} |-> IntV(0)]

\* jsonMapSkips without the test for a leading underscore
jsonMapSkipsLowerOnly(fieldName) == fieldName[1] # ToUpperChar(fieldName[1])

\* the two tests that make jsonMap pass over a field: the first byte differs
\* from its upper case form, or the name starts with an underscore
jsonMapSkips(fieldName) ==
    \/ fieldName[1] # ToUpperChar(fieldName[1])
    \/ fieldName[1] = "_"

\* the key jsonMap stores a field under
jsonMapKey(fieldName) == FirstComponent(SnakeCase(fieldName))

\* the value jsonMap stores: a reference to the field when the field is not
\* itself a pointer and can be addressed, else the field's value
jsonMapValue(val, canAddr) ==
    IF val.kind # "ptr" /\ canAddr THEN PtrV(val) ELSE val

\* jsonMapMerge that drops the fields of the embedded record
jsonMapMergeNone(fieldValues, subFields) == fieldValues

\* for k, v := range subFields { fieldValues[k] = v }
jsonMapMerge(fieldValues, subFields) ==
    [k \in DOMAIN fieldValues \cup DOMAIN subFields |->
        IF k \in DOMAIN subFields THEN subFields[k] ELSE fieldValues[k]]

\* MapSet that leaves alone a key the map already holds
MapSetIfAbsent(fieldValues, key, value) ==
    [k \in DOMAIN fieldValues \cup {key} |->
        IF k \in DOMAIN fieldValues THEN fieldValues[k] ELSE value]

\* fieldValues[key] = value
MapSet(fieldValues, key, value) ==
    [k \in DOMAIN fieldValues \cup {key} |->
        IF k = key THEN value ELSE fieldValues[k]]

RECURSIVE jsonMap(_)
RECURSIVE jsonMapFields(_, _, _, _)
\* field i is embedded and jsonMap returned subFields for it
jsonMapEmbedded(fields, i, canAddr, fieldValues, subFields) ==
    IF subFields.panic THEN [panic |-> TRUE, m |-> NoFields]
    ELSE jsonMapFields(fields, i + 1, canAddr, jsonMapMerge(fieldValues, subFields.m))

\* the loop of jsonMap from field i on, fieldValues being the map so far
jsonMapFields(fields, i, canAddr, fieldValues) ==
    IF i > Len(fields) THEN [panic |-> FALSE, m |-> fieldValues]
    ELSE IF jsonMapSkips(fields[i].name)
    THEN jsonMapFields(fields, i + 1, canAddr, fieldValues)
    ELSE IF fields[i].anon
    THEN jsonMapEmbedded(fields, i, canAddr, fieldValues, jsonMap(fields[i].val))
    ELSE jsonMapFields(fields, i + 1, canAddr,
                       MapSet(fieldValues, jsonMapKey(fields[i].name),
                              jsonMapValue(fields[i].val, canAddr)))

\* jsonMap on s, the value behind obj
jsonMapOf(s, canAddr) ==
    IF s.kind # "struct" THEN [panic |-> TRUE, m |-> NoFields]
    ELSE jsonMapFields(s.items, 1, canAddr, NoFields)

jsonMap(obj) ==
    IF obj.kind = "ptr" /\ obj.items = << >> THEN [panic |-> TRUE, m |-> NoFields]
    ELSE IF obj.kind = "ptr" THEN jsonMapOf(obj.items[1], TRUE)
    ELSE jsonMapOf(obj, FALSE)

(***************************************************************************)
(* JSONEncode: the flat encoder.  wfail tells whether the sink behind the  *)
(* encoder fails its writes.                                               *)
(***************************************************************************)
\* ToRemove with the test "<= 0" in place of "== -1"
ToRemoveOffByOne(obj, allowed) == { k \in DOMAIN obj : FindString(k, allowed) <= 0 }

\* the keys of obj that FindString does not find in allowed
ToRemove(obj, allowed) == { k \in DOMAIN obj : FindString(k, allowed) = -1 }

\* for _, k := range toRemove { delete(obj, k) }
DeleteKeys(obj, toRemove) == [k \in DOMAIN obj \ toRemove |-> obj[k]]

\* EncodeEmpty encoding the collection as it was given
EncodeEmptyAsGiven(wfail, objects) == EncoderEncode(wfail, Marshal(objects))

\* count == 0: e.Encode(make([]interface{}, 0))
EncodeEmpty(wfail, objects) ==
    EncoderEncode(wfail, [err |-> FALSE, toks |-> << LBrack, RBrack >>])

\* FilterAll storing the filtered map of the first element for every element
FilterAllFirst(maps, toRemove) == [i \in DOMAIN maps |-> DeleteKeys(maps[1].m, toRemove)]

\* FilterAll that also drops from a later element what the first does not keep
FilterAllLikeFirst(maps, toRemove) ==
    [i \in DOMAIN maps |->
        DeleteKeys(maps[i].m, toRemove \cup (DOMAIN maps[i].m \ DOMAIN maps[1].m))]

\* data[i]: the map of element i without the keys of toRemove
FilterAll(maps, toRemove) == [i \in DOMAIN maps |-> DeleteKeys(maps[i].m, toRemove)]

\* the collection path once every element went through jsonMap: toRemove is
\* computed from the map of the first element
EncodeMaps(wfail, maps, allowed) ==
    IF \E i \in DOMAIN maps : maps[i].panic THEN Panicked
    ELSE EncoderEncode(wfail,
             MarshalMaps(FilterAll(maps, ToRemove(maps[1].m, allowed))))

\* the collection path for count > 0
EncodeMulti(wfail, objects, allowed) ==
    EncodeMaps(wfail, [i \in DOMAIN objects.items |-> jsonMap(objects.items[i])], allowed)

\* the single record path once jsonMap returned obj
EncodeMap(wfail, obj, allowed) ==
    IF obj.panic THEN Panicked
    ELSE EncoderEncode(wfail, MarshalMap(DeleteKeys(obj.m, ToRemove(obj.m, allowed))))

\* the single record path
EncodeSingle(wfail, objects, allowed) == EncodeMap(wfail, jsonMap(objects), allowed)

JSONEncode(wfail, objects, allowed) ==
    IF objects.kind = "slice"
    THEN IF Len(objects.items) = 0
         THEN EncodeEmpty(wfail, objects)
         ELSE EncodeMulti(wfail, objects, allowed)
    ELSE EncodeSingle(wfail, objects, allowed)

\* DeleteLeaves that clears the fields the deleted entries refer to
DeleteZeroes(s, obj, toRemove) ==
    StructV([i \in DOMAIN s.items |->
        IF jsonMapKey(s.items[i].name) \in toRemove /\ s.items[i].val.kind = "int"
        THEN Field(s.items[i].name, s.items[i].tag, s.items[i].anon, IntV(0))
        ELSE s.items[i]])

\* The record s, whose fields the values of obj refer to, after
\* delete(obj, k) for the keys of toRemove: delete takes the entries out of
\* the map jsonMap made and leaves what they refer to as it is.
DeleteLeaves(s, obj, toRemove) == s

\* The caller's data after JSONEncode.  Only behind a pointer to a record
\* does jsonMap hold references into the caller's data (val.Addr()); a record
\* passed by value and the elements of a collection are read from copies.
DataAfterJSONEncode(objects, allowed) ==
    IF objects.kind = "ptr" /\ objects.items # << >> /\ ~jsonMap(objects).panic
    THEN PtrV(DeleteLeaves(objects.items[1], jsonMap(objects).m,
                           ToRemove(jsonMap(objects).m, allowed)))
    ELSE objects

(***************************************************************************)
(* Allow-lists as passed to JSONEncodeHierarchy (an interface{}):          *)
(*   shape "nil"   : no allow-list                                         *)
(*   shape "flat"  : a []string, in list                                   *)
(*   shape "tree"  : an AllowedKeys, sub maps each key to an allow-list    *)
(*   shape "other" : a value of any other type                             *)
(***************************************************************************)
NoKeys == [k \in {} |-> 0]

AllowNil == [shape |-> "nil", list |-> << >>, sub |-> NoKeys]

AllowFlat(list) == [shape |-> "flat", list |-> list, sub |-> NoKeys]

AllowTree(sub) == [shape |-> "tree", list |-> << >>, sub |-> sub]

AllowOther == [shape |-> "other", list |-> << >>, sub |-> NoKeys]

\* a map[string]interface{} that is not of type AllowedKeys
AllowPlainMap(sub) == [shape |-> "other", list |-> << >>, sub |-> sub]

\* the name the tree branch looks a field up under and writes as its key
jsonTagOf(field) == IF field.tag = << >> THEN field.name ELSE field.tag

\* TreeEntry taking a tree without entries for no restriction
TreeEntryEmptyAllowsAll(obj, jsonTag) ==
    [good |-> jsonTag \in DOMAIN obj \/ DOMAIN obj = {},
     keys |-> IF jsonTag \in DOMAIN obj THEN obj[jsonTag] ELSE AllowNil]

\* keys, good := obj[jsonTag]: keys is nil when the tree has no such entry
TreeEntry(obj, jsonTag) ==
    [good |-> jsonTag \in DOMAIN obj,
     keys |-> IF jsonTag \in DOMAIN obj THEN obj[jsonTag] ELSE AllowNil]

\* HierarchyNil treating a nil allow-list as an empty list
HierarchyNilAsEmptyList(wfail, objects) == JSONEncode(wfail, objects, << >>)

\* allowed == nil
HierarchyNil(wfail, objects) == EncoderEncode(wfail, Marshal(objects))

\* HierarchyFlat that ignores the list
HierarchyFlatUnfiltered(wfail, objects, slice) == EncoderEncode(wfail, Marshal(objects))

\* allowed is a []string
HierarchyFlat(wfail, objects, slice) == JSONEncode(wfail, objects, slice)

\* the three writes that end the tree branch; their errors are discarded
HierarchyWrite(wfail, fieldOutputs) ==
    IF wfail THEN Outcome(<< >>, "nil", FALSE)
    ELSE Outcome(<< LBrace >> \o CommaJoin(fieldOutputs) \o << RBrace >>, "nil", FALSE)

RECURSIVE JSONEncodeHierarchy(_, _, _)
RECURSIVE HierarchyFields(_, _, _, _)
\* HierarchyField that leaves out a field whose encoding failed and goes on
HierarchyFieldGoesOn(fields, i, obj, fieldOutputs, jsonTag, sub) ==
    IF sub.panic \/ sub.err # "nil"
    THEN HierarchyFields(fields, i + 1, obj, fieldOutputs)
    ELSE HierarchyFields(fields, i + 1, obj,
             Append(fieldOutputs, << Str(jsonTag), Colon, Space >> \o sub.out))

\* field i is allowed under jsonTag and the recursive call on its value, into
\* a buffer of its own, came back with sub
HierarchyField(fields, i, obj, fieldOutputs, jsonTag, sub) ==
    IF sub.panic \/ sub.err # "nil"
    THEN [stop |-> TRUE, res |-> Outcome(<< >>, sub.err, sub.panic), outs |-> << >>]
    ELSE HierarchyFields(fields, i + 1, obj,
             Append(fieldOutputs, << Str(jsonTag), Colon, Space >> \o sub.out))

\* the loop of the tree branch from field i on; fieldOutputs are the texts
\* of the fields encoded so far.  The result is the outcome of the call if
\* the loop ends it (stop), else the field texts.
HierarchyFields(fields, i, obj, fieldOutputs) ==
    IF i > Len(fields)
    THEN [stop |-> FALSE, res |-> Panicked, outs |-> fieldOutputs]
    ELSE IF ~TreeEntry(obj, jsonTagOf(fields[i])).good
    THEN HierarchyFields(fields, i + 1, obj, fieldOutputs)
    ELSE IF ~IsExported(fields[i].name)
    THEN [stop |-> TRUE, res |-> Panicked, outs |-> << >>]
    ELSE HierarchyField(fields, i, obj, fieldOutputs, jsonTagOf(fields[i]),
             JSONEncodeHierarchy(FALSE, fields[i].val,
                                 TreeEntry(obj, jsonTagOf(fields[i])).keys))

\* the tree branch once the loop over the fields has ended
HierarchyEnd(wfail, loop) ==
    IF loop.stop THEN loop.res ELSE HierarchyWrite(wfail, loop.outs)

\* the tree branch on data, the value behind objects
HierarchyData(wfail, data, obj) ==
    IF data.kind # "struct" THEN Panicked
    ELSE HierarchyEnd(wfail, HierarchyFields(data.items, 1, obj, << >>))

\* allowed is an AllowedKeys
HierarchyTree(wfail, objects, obj) ==
    IF objects.kind = "ptr" /\ objects.items = << >> THEN Panicked
    ELSE HierarchyData(wfail, IF objects.kind = "ptr" THEN objects.items[1] ELSE objects, obj)

\* HierarchyOther taking every map for a tree and anything else for nil
HierarchyOtherLenient(wfail, objects, allowed) ==
    IF DOMAIN allowed.sub # {} THEN HierarchyTree(wfail, objects, allowed.sub)
    ELSE HierarchyNil(wfail, objects)

\* allowed is neither nil, a []string nor an AllowedKeys: neither branch is
\* taken and the function ends with return nil
HierarchyOther(wfail, objects, allowed) == Outcome(<< >>, "nil", FALSE)

JSONEncodeHierarchy(wfail, objects, allowed) ==
    CASE allowed.shape = "nil" -> HierarchyNil(wfail, objects)
      [] allowed.shape = "flat" -> HierarchyFlat(wfail, objects, allowed.list)
      [] allowed.shape = "tree" -> HierarchyTree(wfail, objects, allowed.sub)
      [] OTHER -> HierarchyOther(wfail, objects, allowed)

\* The caller's data after JSONEncodeHierarchy: the tree branch reads a copy
\* of the record (val.Interface()), the flat branch is JSONEncode.
DataAfterJSONEncodeHierarchy(objects, allowed) ==
    IF allowed.shape = "flat" THEN DataAfterJSONEncode(objects, allowed.list)
    ELSE objects

(***************************************************************************)
(* The inputs of the model.                                                *)
(***************************************************************************)
\* most fields of a record, most entries of an allow-list
MaxFields == 2

MaxAllowed == 2

\* most elements of a collection, and the largest id an element holds
MaxElems == 2

MaxVal == 2

sID == << "I", "D" >>

sUserName == << "U", "s", "e", "r", "N", "a", "m", "e" >>

sEmail == << "E", "m", "a", "i", "l" >>

sAge == << "A", "g", "e" >>

sSecret == << "s", "e", "c", "r", "e", "t" >>

sHid == << "_", "h", "i", "d" >>

sInner == << "I", "n", "n", "e", "r" >>

sInnerField == << "I", "n", "n", "e", "r", "F", "i", "e", "l", "d" >>

sBase == << "B", "a", "s", "e" >>

sNested == << "N", "e", "s", "t", "e", "d" >>

sFoo == << "F", "o", "o" >>

sBar == << "B", "a", "r" >>

sCh == << "C", "h" >>

kId == << "i", "d" >>

kMail == << "m", "a", "i", "l" >>

kEmail == << "e", "m", "a", "i", "l" >>

kUserName == << "u", "s", "e", "r", "_", "n", "a", "m", "e" >>

kAgeTag == << "a", "g", "e", ",", "o", "m", "i", "t", "e", "m", "p", "t", "y" >>

kSecret == << "s", "e", "c", "r", "e", "t" >>

kHid == << "h", "i", "d" >>

kInnerField == << "i", "n", "n", "e", "r", "_", "f", "i", "e", "l", "d" >>

kInner == << "i", "n", "n", "e", "r" >>

kNested == << "n", "e", "s", "t", "e", "d" >>

kFoo == << "f", "o", "o" >>

kBar == << "b", "a", "r" >>

kCh == << "c", "h" >>

\*   ID int `json:"id"`
fID(v) == Field(sID, kId, FALSE, IntV(v))

\* The fields records are made of, in the order they are declared in:
\*   Inner                         (embedded: InnerField `json:"inner_field"`, ID `json:"id"`)
\*   ID       int `json:"id"`
\*   UserName int
\*   Email    int `json:"mail"`
\*   Age      int `json:"age,omitempty"`
\*   secret   int
\*   _hid     int
\*   Nested   Nested `json:"nested"`   (Foo `json:"foo"`, Bar `json:"bar"`)
\*   Ch       chan int `json:"ch"`
\*   Base                          (embedded: ID `json:"id"`, Email `json:"mail"`)
FieldPool ==
    << Field(sInner, << >>, TRUE,
             StructV(<< Field(sInnerField, kInnerField, FALSE, IntV(6)),
                        Field(sID, kId, FALSE, IntV(7)) >>)),
       fID(1),
       Field(sUserName, << >>, FALSE, IntV(2)),
       Field(sEmail, kMail, FALSE, IntV(3)),
       Field(sAge, kAgeTag, FALSE, IntV(0)),
       Field(sSecret, << >>, FALSE, IntV(4)),
       Field(sHid, << >>, FALSE, IntV(5)),
       Field(sNested, kNested, FALSE,
             StructV(<< Field(sFoo, kFoo, FALSE, IntV(9)),
                        Field(sBar, kBar, FALSE, IntV(10)) >>)),
       Field(sCh, kCh, FALSE, ChanV),
       Field(sBase, << >>, TRUE,
             StructV(<< Field(sID, kId, FALSE, IntV(8)),
                        Field(sEmail, kMail, FALSE, IntV(11)) >>)) >>

\* the members of pool whose index is in S, in the order of pool
RECURSIVE Pick(_, _, _)
Pick(pool, S, i) ==
    IF i > Len(pool) THEN << >>
    ELSE (IF i \in S THEN << pool[i] >> ELSE << >>) \o Pick(pool, S, i + 1)

Picks(pool, most) ==
    { Pick(pool, S, 1) : S \in { T \in SUBSET DOMAIN pool : Cardinality(T) <= most } }

SeqsUpTo(S, most) == UNION { [1 .. n -> S] : n \in 0 .. most }

Records == { StructV(fields) : fields \in Picks(FieldPool, MaxFields) }

\* the elements of collections: records of one type that differ in their
\* values, and a record of another type
Elems ==
    { StructV(<< fID(v), Field(sEmail, kMail, FALSE, IntV(3)) >>) : v \in 1 .. MaxVal }
        \cup { StructV(<< fID(1), Field(sUserName, << >>, FALSE, IntV(2)) >>) }

Collections == { SliceV(elems) : elems \in SeqsUpTo(Elems, MaxElems) } \cup { NilSlice }

\* data that is neither a record nor a collection: a number, a nil pointer,
\* a pointer to a number
Scalars == { IntV(1), NilPtr, PtrV(IntV(1)) }

Objects == Records \cup { PtrV(r) : r \in Records } \cup Collections \cup Scalars

NamePool == << kId, kEmail, kMail, kUserName, kSecret, kHid, kInnerField, kInner, kNested >>

FlatLists == Picks(NamePool, MaxAllowed)

TreeKeyPool == << kId, kMail, sUserName, kUserName, kSecret, kNested, kCh, sInner >>

\* what a tree holds for the key "nested"
NestedAllows ==
    { AllowNil,
      AllowFlat(<< kFoo >>),
      AllowTree([k \in { kBar } |-> AllowNil]),
      AllowTree(NoKeys),
      AllowOther }

Trees ==
    { [k \in Range(keys) |-> IF k = kNested THEN sub ELSE AllowNil] :
        keys \in Picks(TreeKeyPool, MaxAllowed), sub \in NestedAllows }

Alloweds ==
    { AllowNil, AllowOther, AllowPlainMap([k \in { kId } |-> AllowNil]) }
        \cup { AllowFlat(list) : list \in FlatLists }
        \cup { AllowTree(sub) : sub \in Trees }

\* most pieces an identifier given to SnakeCase is put together from, and
\* most times SnakeCase is applied in a row
MaxPieces == 3

MaxApplications == 2

\* what identifiers are put together from: lower-case and capitalised words,
\* the acronyms of camelCaseRe, a capital, a digit, an underscore, punctuation
PiecePool ==
    { << "t", "e", "s", "t" >>, << "a" >>,
      << "C", "a", "m", "e", "l" >>, << "K", "e", "y" >>,
      << "A", "P", "I" >>, << "J", "S", "O", "N" >>, << "I", "P" >>, << "U", "R", "L" >>,
      << "X" >>, << "1" >>, << "_" >>, << "!" >> }

Identifiers == { Join(parts, << >>) : parts \in SeqsUpTo(PiecePool, MaxPieces) }

(***************************************************************************)
(* The state: the arguments of a call (the data, the allow-list, whether   *)
(* the sink fails its writes), what the sink has received, what the call   *)
(* returned, and which call was made; the string given to SnakeCase and    *)
(* the results of applying it, each application to the result before.      *)
(***************************************************************************)
VARIABLES objects, allowed, wfail, w, ret, pc, str, results,
          middlewares, handle, wrapLen, trace, writer, responds, call,
          Status, NoWrite, Buffer, ResponseWriter, calls,
          SkipLoggingPaths, served, log, propagated,
          given, reqAuthorization, reqCookie, wAuthorization, wSetCookie,
          issuer, checked, tokenCalls

vars == << objects, allowed, wfail, w, ret, pc, str, results,
           middlewares, handle, wrapLen, trace, writer, responds, call,
           Status, NoWrite, Buffer, ResponseWriter, calls,
           SkipLoggingPaths, served, log, propagated,
           given, reqAuthorization, reqCookie, wAuthorization, wSetCookie,
           issuer, checked, tokenCalls >>

\* the request as it arrived; the Authorization header and the Cookie header
\* of the request and the Authorization header and the Set-Cookie lines of
\* the response; the issuer given to Check and what Check returned; the
\* calls of SetTokenHeader and ClearToken made so far
authVars == << given, reqAuthorization, reqCookie, wAuthorization, wSetCookie,
               issuer, checked, tokenCalls >>

\* the nil *http.Request
NilRequest == [nil |-> TRUE, claims |-> [iss |-> "", id |-> "", user |-> ""]]

\* a request without headers, a response without headers, nothing called
AuthIdle ==
    /\ given = [auth |-> << >>, cookie |-> << >>]
    /\ reqAuthorization = << >>
    /\ reqCookie = << >>
    /\ wAuthorization = << >>
    /\ wSetCookie = << >>
    /\ issuer = ""
    /\ checked = [authenticated |-> FALSE, req |-> NilRequest, err |-> "nil"]
    /\ tokenCalls = << >>

\* the router's paths to skip, the requests served through a handle wrapped
\* by Request (path and what the handler did), the lines logged, and the
\* panics that reached the caller of the wrapped handle
routerVars == << SkipLoggingPaths, served, log, propagated >>

\* a router with nothing to skip that has served no request
RouterIdle ==
    /\ SkipLoggingPaths = {}
    /\ served = << >>
    /\ log = << >>
    /\ propagated = << >>

\* the fields of an APIResponseWriter a call reads or writes, what the
\* ResponseWriter it wraps has received, and the calls made on it so far
writerVars == << Status, NoWrite, Buffer, ResponseWriter, calls >>

\* an APIResponseWriter nothing was called on
WriterIdle ==
    /\ Status = 0
    /\ NoWrite = FALSE
    /\ Buffer = << >>
    /\ ResponseWriter = << >>
    /\ calls = << >>

respondVars == << writer, responds, call >>

\* the arguments of the latest call of RespondWith, and how many calls the
\* ResponseWriter had received when it was made
CallOf(status, data, from) == [status |-> status, data |-> data, from |-> from]

\* the ResponseWriter of a request has received no call
RespondIdle ==
    /\ writer = << >>
    /\ responds = 0
    /\ call = CallOf(0, [kind |-> "nil", num |-> 0, items |-> << >>], 0)

stackVars == << middlewares, handle, wrapLen, trace >>

\* a new stack: nothing used, nothing wrapped, no request served
StackIdle ==
    /\ middlewares = << >>
    /\ handle = << >>
    /\ wrapLen = 0
    /\ trace = << >>

encoderVars == << objects, allowed, wfail, w, ret >>

snakeVars == << str, results >>

\* no string has been given to SnakeCase
SnakeIdle == str = << >> /\ results = << >>

\* no data has been given to an encoder
EncoderIdle ==
    /\ objects = NilSlice
    /\ allowed = AllowNil
    /\ wfail = FALSE
    /\ w = << >>
    /\ ret = [err |-> "nil", panic |-> FALSE]

Init ==
    /\ objects \in Objects
    /\ allowed \in Alloweds
    /\ wfail \in BOOLEAN
    /\ w = << >>
    /\ ret = [err |-> "nil", panic |-> FALSE]
    /\ pc = "ready"
    /\ SnakeIdle
    /\ StackIdle
    /\ RespondIdle
    /\ WriterIdle
    /\ RouterIdle
    /\ AuthIdle

\* the call ends with outcome res: the sink has received res.out
Returns(res) ==
    /\ w' = w \o res.out
    /\ ret' = [err |-> res.err, panic |-> res.panic]

\* err := JSONEncode(json.NewEncoder(w), objects, allowed)
CallJSONEncode ==
    /\ pc = "ready"
    /\ allowed.shape = "flat"
    /\ Returns(JSONEncode(wfail, objects, allowed.list))
    /\ objects' = DataAfterJSONEncode(objects, allowed.list)
    /\ pc' = "JSONEncode"
    /\ UNCHANGED << allowed, wfail, snakeVars, stackVars, respondVars, writerVars, routerVars, authVars >>

\* err := JSONEncodeHierarchy(w, objects, allowed)
CallJSONEncodeHierarchy ==
    /\ pc = "ready"
    /\ Returns(JSONEncodeHierarchy(wfail, objects, allowed))
    /\ objects' = DataAfterJSONEncodeHierarchy(objects, allowed)
    /\ pc' = "JSONEncodeHierarchy"
    /\ UNCHANGED << allowed, wfail, snakeVars, stackVars, respondVars, writerVars, routerVars, authVars >>

Next == CallJSONEncode \/ CallJSONEncodeHierarchy

Spec == Init /\ [][Next]_vars

(***************************************************************************)
(* SnakeCase on its own: a string is given to it, and its result is given  *)
(* to it again.                                                            *)
(***************************************************************************)
InitSnakeCase ==
    /\ str \in Identifiers
    /\ results = << >>
    /\ pc = "ready"
    /\ EncoderIdle
    /\ StackIdle
    /\ RespondIdle
    /\ WriterIdle
    /\ RouterIdle
    /\ AuthIdle

\* results = append(results, SnakeCase(str))
CallSnakeCase ==
    /\ pc = "ready"
    /\ results' = << SnakeCase(str) >>
    /\ pc' = "SnakeCase"
    /\ UNCHANGED << str, encoderVars, stackVars, respondVars, writerVars, routerVars, authVars >>

\* results = append(results, SnakeCase(results[len(results)-1]))
CallSnakeCaseAgain ==
    /\ pc = "SnakeCase"
    /\ Len(results) < MaxApplications
    /\ results' = Append(results, SnakeCase(results[Len(results)]))
    /\ UNCHANGED << str, pc, encoderVars, stackVars, respondVars, writerVars, routerVars, authVars >>

NextSnakeCase == CallSnakeCase \/ CallSnakeCaseAgain

SpecSnakeCase == InitSnakeCase /\ [][NextSnakeCase]_vars

(***************************************************************************)
(* The middleware stack.  A handle is the sequence of its layers from the  *)
(* outermost in: calling it enters the first layer, which calls the handle *)
(* made of the layers after it.  The last layer of a handle that reaches   *)
(* it is the handle given to Wrap.                                         *)
(***************************************************************************)
\* most middlewares on a stack
MaxMiddlewares == 3

\* a middleware as the tests write them: its handle notes that it was
\* entered and calls fn
Calling(id) == [id |-> id, kind |-> "middleware"]

\* StandardHandlerToMiddleware(next), id naming the http.Handler next
Standard(id) == [id |-> id, kind |-> "standard"]

\* the handle given to Wrap
hn == << [id |-> "hn", kind |-> "handle"] >>

MiddlewarePool == { Calling("first"), Calling("second"), Calling("third"), Standard("next") }

\* StandardHandlerToMiddleware whose handle goes on to the handle it wraps
StandardHandlerToMiddlewareThenFn(next, fn) == << Standard(next) >> \o fn

\* the handle StandardHandlerToMiddleware(next) returns for fn: it calls
\* next.ServeHTTP and has no use for fn
StandardHandlerToMiddleware(next, fn) == << Standard(next) >>

\* mw(fn): the handle the middleware mw returns for fn
Apply(mw, fn) ==
    IF mw.kind = "standard" THEN StandardHandlerToMiddleware(mw.id, fn)
    ELSE << mw >> \o fn

\* the loop of Wrap at i, result being the handle so far
RECURSIVE WrapLoop(_, _, _, _)
WrapLoop(mws, len, i, result) ==
    IF i < len - 1
    THEN WrapLoop(mws, len, i + 1, Apply(mws[(len - (2 + i)) + 1], result))
    ELSE result

\* Wrap that starts with the first middleware and goes up the stack
WrapForward(mws, fn) ==
    IF Len(mws) = 0 THEN fn
    ELSE WrapLoop([i \in DOMAIN mws |-> mws[Len(mws) + 1 - i]], Len(mws), 0,
                  Apply(mws[1], fn))

\* (s *InternalStack) Wrap(fn); mws[i + 1] is s.middlewares[i]
Wrap(mws, fn) ==
    IF Len(mws) = 0 THEN fn
    ELSE WrapLoop(mws, Len(mws), 0, Apply(mws[(Len(mws) - 1) + 1], fn))

\* what calling a handle does, layer by layer: a middleware and the final
\* handle are entered, a converted http.Handler has its ServeHTTP called
Serve(h) ==
    [i \in DOMAIN h |->
        [ev |-> IF h[i].kind = "standard" THEN "ServeHTTP" ELSE "enter", id |-> h[i].id]]

InitStack ==
    /\ StackIdle
    /\ pc = "ready"
    /\ EncoderIdle
    /\ SnakeIdle
    /\ RespondIdle
    /\ WriterIdle
    /\ RouterIdle
    /\ AuthIdle

\* s.Use(mw)
Use ==
    /\ Len(middlewares) < MaxMiddlewares
    /\ \E mw \in MiddlewarePool : middlewares' = Append(middlewares, mw)
    /\ UNCHANGED << handle, wrapLen, trace, pc, encoderVars, snakeVars, respondVars, writerVars, routerVars, authVars >>

\* wrapped := s.Wrap(hn)
CallWrap ==
    /\ handle' = Wrap(middlewares, hn)
    /\ wrapLen' = Len(middlewares)
    /\ trace' = << >>
    /\ pc' = "Wrap"
    /\ UNCHANGED << middlewares, encoderVars, snakeVars, respondVars, writerVars, routerVars, authVars >>

\* wrapped(w, r, p): a request goes through the wrapped handle
Request ==
    /\ pc = "Wrap"
    /\ trace' = Serve(handle)
    /\ UNCHANGED << middlewares, handle, wrapLen, pc, encoderVars, snakeVars, respondVars, writerVars, routerVars, authVars >>

NextStack == Use \/ CallWrap \/ Request

SpecStack == InitStack /\ [][NextStack]_vars

(***************************************************************************)
(* RespondWith.  writer holds the calls the http.ResponseWriter of one     *)
(* request has received, in their order: Header().Set(key, ...),           *)
(* WriteHeader(status) and Write(body).  data is nil, an error or a value. *)
(***************************************************************************)
\* most calls of RespondWith for one request
MaxResponds == 2

DataNil == [kind |-> "nil", num |-> 0, items |-> << >>]

\* an error whose Error() is msg
DataError(msg) == [kind |-> "error", num |-> 0, items |-> msg]

\* w.Header().Set(key, value)
HeaderSet(key, value) ==
    [op |-> "Header.Set", key |-> key, value |-> value, status |-> 0, body |-> << >>]

WriteHeader(status) ==
    [op |-> "WriteHeader", key |-> "", value |-> "", status |-> status, body |-> << >>]

Write(body) == [op |-> "Write", key |-> "", value |-> "", status |-> 0, body |-> body]

\* the bytes a token takes in the text
TokLen(tok) ==
    CASE tok.t = "str" -> Len(tok.s) + 2
      [] tok.t = "num" -> (IF tok.n < 10 THEN 1 ELSE IF tok.n < 100 THEN 2 ELSE 3)
      [] tok.t = "null" -> 4
      [] OTHER -> 1

\* len(responseBody)
RECURSIVE TextLen(_)
TextLen(toks) == IF toks = << >> THEN 0 ELSE TokLen(Head(toks)) + TextLen(Tail(toks))

ContentTypeJSON == "application/json; charset=utf-8"

\* http.StatusText for the statuses of the model
StatusText(status) ==
    IF status = 400 THEN << "B", "a", "d", " ", "R", "e", "q", "u", "e", "s", "t" >>
    ELSE << "I", "n", "t", "e", "r", "n", "a", "l", " ", "S", "e", "r", "v", "e", "r",
            " ", "E", "r", "r", "o", "r" >>

\* json.Marshal(data) once an error and a missing body have been replaced
RespondBody(status, data) ==
    IF data.kind = "error"
    THEN [err |-> FALSE,
          toks |-> << LBrace, Str(<< "e", "r", "r", "o", "r" >>), Colon, Str(data.items), RBrace >>]
    ELSE IF data.kind = "nil" /\ status >= 400
    THEN [err |-> FALSE,
          toks |-> << LBrace, Str(<< "c", "o", "d", "e" >>), Colon, Num(status), Comma,
                      Str(<< "e", "r", "r", "o", "r" >>), Colon, Str(StatusText(status)),
                      RBrace >>]
    ELSE IF data.kind = "nil" THEN [err |-> FALSE, toks |-> << Null >>]
    ELSE Marshal(data)

\* the body written when serialization fails
FailedToEncode ==
    << LBrace, Str(<< "e", "r", "r", "o", "r" >>), Colon,
       Str(<< "f", "a", "i", "l", "e", "d", " ", "t", "o", " ", "e", "n", "c", "o", "d", "e",
              " ", "r", "e", "s", "p", "o", "n", "s", "e" >>), RBrace >>

\* RespondWith that answers a failed serialization with the status it was given
RespondMarshalledKeepsStatus(status, responseBody) ==
    IF responseBody.err
    THEN << HeaderSet("Content-Type", ContentTypeJSON), WriteHeader(status),
            Write(FailedToEncode) >>
    ELSE << HeaderSet("Content-Type", ContentTypeJSON),
            HeaderSet("Content-Length", TextLen(responseBody.toks)),
            WriteHeader(status), Write(responseBody.toks) >>

\* the rest of RespondWith once json.Marshal returned responseBody
RespondMarshalled(status, responseBody) ==
    IF responseBody.err
    THEN << HeaderSet("Content-Type", ContentTypeJSON), WriteHeader(500),
            Write(FailedToEncode) >>
    ELSE << HeaderSet("Content-Type", ContentTypeJSON),
            HeaderSet("Content-Length", TextLen(responseBody.toks)),
            WriteHeader(status), Write(responseBody.toks) >>

\* the calls RespondWith(w, req, status, data) makes on w
RespondWith(status, data) ==
    IF status = 204 \/ status = 304 THEN << WriteHeader(status) >>
    ELSE RespondMarshalled(status, RespondBody(status, data))

Statuses == { 200, 204, 304, 400, 500 }

\* data given to RespondWith: nothing, an error, a number, a channel, a
\* record, and a record that holds a channel after a field that can be written
RespondData ==
    { DataNil, DataError(<< "b", "o", "o", "m" >>), IntV(1), ChanV, StructV(<< fID(1) >>),
      StructV(<< fID(1), Field(sCh, kCh, FALSE, ChanV) >>) }

InitRespond ==
    /\ RespondIdle
    /\ pc = "ready"
    /\ EncoderIdle
    /\ SnakeIdle
    /\ StackIdle
    /\ WriterIdle
    /\ RouterIdle
    /\ AuthIdle

\* RespondWith(w, req, status, data) in the handling of the request
CallRespondWith ==
    /\ responds < MaxResponds
    /\ \E status \in Statuses, data \in RespondData :
          /\ writer' = writer \o RespondWith(status, data)
          /\ call' = CallOf(status, data, Len(writer))
    /\ responds' = responds + 1
    /\ pc' = "RespondWith"
    /\ UNCHANGED << encoderVars, snakeVars, stackVars, writerVars, routerVars, authVars >>

NextRespond == CallRespondWith

SpecRespond == InitRespond /\ [][NextRespond]_vars

(***************************************************************************)
(* APIResponseWriter.  ResponseWriter holds the calls the wrapped           *)
(* http.ResponseWriter has received; calls holds the calls made on the      *)
(* APIResponseWriter, each with the Status it left.                         *)
(***************************************************************************)
\* most calls made on one APIResponseWriter
MaxCalls == 4

\* the status codes given to WriteHeader
WriterStatuses == { 200, 404, 418, 500 }

\* the data given to Write
WriterData == { << "h", "i" >>, << "o", "k", "!" >> }

\* Write that sets the status 200 whatever the Status was
StatusOfWriteAlwaysOK(s) == 200

\* r.Status once Write has looked at it
StatusOfWrite(s) == IF s = 0 THEN 200 ELSE s

\* what the wrapped writer has received once r.NoWrite was tested
Forward(noWrite, inner, c) == IF noWrite THEN inner ELSE Append(inner, c)

InitWriter ==
    /\ Status = 0
    /\ NoWrite \in BOOLEAN
    /\ Buffer = << >>
    /\ ResponseWriter = << >>
    /\ calls = << >>
    /\ pc = "ready"
    /\ EncoderIdle
    /\ SnakeIdle
    /\ StackIdle
    /\ RespondIdle
    /\ RouterIdle
    /\ AuthIdle

\* r.WriteHeader(status)
APIResponseWriter_WriteHeader ==
    /\ Len(calls) < MaxCalls
    /\ \E status \in WriterStatuses :
          /\ Status' = status
          /\ ResponseWriter' = Forward(NoWrite, ResponseWriter, WriteHeader(status))
          /\ calls' = Append(calls, [call |-> WriteHeader(status), after |-> status])
    /\ pc' = "APIResponseWriter"
    /\ UNCHANGED << NoWrite, Buffer, encoderVars, snakeVars, stackVars, respondVars, routerVars, authVars >>

\* r.Write(data)
APIResponseWriter_Write ==
    /\ Len(calls) < MaxCalls
    /\ \E data \in WriterData :
          /\ Status' = StatusOfWrite(Status)
          /\ Buffer' = IF NoWrite THEN Buffer \o data ELSE Buffer
          /\ ResponseWriter' = Forward(NoWrite, ResponseWriter, Write(data))
          /\ calls' = Append(calls, [call |-> Write(data), after |-> StatusOfWrite(Status)])
    /\ pc' = "APIResponseWriter"
    /\ UNCHANGED << NoWrite, encoderVars, snakeVars, stackVars, respondVars, routerVars, authVars >>

NextWriter == APIResponseWriter_WriteHeader \/ APIResponseWriter_Write

SpecWriter == InitWriter /\ [][NextWriter]_vars

(***************************************************************************)
(* Router.Request.  A handler returns or panics with a value; a panic       *)
(* value is an error or something else (a string).  A handle call is        *)
(* [log, panic]: the lines it logged and the panic it ended with ("none"    *)
(* when it returned).                                                       *)
(***************************************************************************)
\* most requests served by one router
MaxRequests == 2

Paths == { "/test", "/health", "/" }

\* what the wrapped handler does: return, panic(fmt.Errorf(...)), panic("...")
Handlers == { "return", "error", "string" }

NoPanic == "none"

\* the panic a handler ends with
PanicOf(h) == IF h = "return" THEN NoPanic ELSE h

\* the panic of err.(error) on a value that is no error: a
\* *runtime.TypeAssertionError
TypeAssertionError == "TypeAssertionError"

\* the deferred function: recover(), then the log line made of err.(error).Error()
Recovered(err) ==
    IF err = NoPanic THEN [log |-> << >>, panic |-> NoPanic]
    ELSE IF err = "error" THEN [log |-> << "panic" >>, panic |-> NoPanic]
    ELSE [log |-> << >>, panic |-> TypeAssertionError]

\* the branch that logs: the params line, h, and the time line if h returned;
\* the deferred function runs when the branch is left either way
RequestLogged(h, deferred) ==
    [log |-> << "params" >> \o (IF PanicOf(h) = NoPanic THEN << "time" >> ELSE << >>)
                 \o deferred.log,
     panic |-> deferred.panic]

\* the handle Request(h) returns, called for a request of the given path
RouterRequest(skip, path, h) ==
    IF path \notin skip
    THEN RequestLogged(h, Recovered(PanicOf(h)))
    ELSE [log |-> << >>, panic |-> PanicOf(h)]

InitRouter ==
    /\ SkipLoggingPaths \in SUBSET Paths
    /\ served = << >>
    /\ log = << >>
    /\ propagated = << >>
    /\ pc = "ready"
    /\ EncoderIdle
    /\ SnakeIdle
    /\ StackIdle
    /\ RespondIdle
    /\ WriterIdle
    /\ AuthIdle

\* router.Request(h)(w, req, ps) for a request of some path
Router_Request ==
    /\ Len(served) < MaxRequests
    /\ \E path \in Paths, h \in Handlers :
          /\ served' = Append(served, [path |-> path, h |-> h])
          /\ log' = Append(log, RouterRequest(SkipLoggingPaths, path, h).log)
          /\ propagated' = Append(propagated, RouterRequest(SkipLoggingPaths, path, h).panic)
    /\ pc' = "Request"
    /\ UNCHANGED << SkipLoggingPaths, encoderVars, snakeVars, stackVars, respondVars,
                    writerVars, authVars >>

NextRouter == Router_Request

SpecRouter == InitRouter /\ [][NextRouter]_vars

(***************************************************************************)
(* Authentication.  A header value is the sequence of its pieces: the      *)
(* literals "Bearer " and "Basic ", a signed token, or a string that is no *)
(* token.  A signed token is known by its signing method, the secret it    *)
(* was signed with, whether it has expired, and its claims (issuer,        *)
(* session id, user id).  A Cookie header is the sequence of its cookies.  *)
(***************************************************************************)
Piece(kind, alg, key, expired, iss, id, user) ==
    [kind |-> kind, alg |-> alg, key |-> key, expired |-> expired,
     iss |-> iss, id |-> id, user |-> user]

Jwt(alg, key, expired, iss, id, user) == Piece("jwt", alg, key, expired, iss, id, user)

\* a string that does not parse as a token
Garbage == Piece("garbage", "", "", FALSE, "", "", "")

\* the empty string
EmptyString == Piece("empty", "", "", FALSE, "", "", "")

Lit(s) == Piece("lit", "", s, FALSE, "", "", "")

\* AuthorizationBearer + " "
BearerSp == Lit("Bearer ")

CookieName == "jwt_token"

HttpCookie(name, value) == [name |-> name, value |-> value]

\* a string longer than maxUserIDLength, maxIssuerLength and maxSessionIDLength
TooLong == "1001 bytes"

\* len(s): the other strings of the model take some ten bytes
StrLen(s) == IF s = "" THEN 0 ELSE IF s = TooLong THEN 1001 ELSE 10

\* the place of the first cookie of the name in a Cookie header, 0 if none
CookieAt(cookies, name) ==
    IF \E i \in DOMAIN cookies : cookies[i].name = name
    THEN CHOOSE i \in DOMAIN cookies :
            /\ cookies[i].name = name
            /\ \A j \in DOMAIN cookies : cookies[j].name = name => i <= j
    ELSE 0

\* len(strings.Split(value, "Bearer "))
SplitLen(value) == Cardinality({ i \in DOMAIN value : value[i] = BearerSp }) + 1

\* strings.Split(value, "Bearer ")[1] when the split has two parts
SplitSecond(value) ==
    SubSeq(value, (CHOOSE i \in DOMAIN value : value[i] = BearerSp) + 1, Len(value))

\* the string made of the pieces: a token only when it is one piece alone
StringOf(pieces) ==
    IF pieces = << >> THEN EmptyString
    ELSE IF Len(pieces) = 1 /\ pieces[1].kind # "lit" THEN pieces[1]
    ELSE Garbage

\* the claims of a token
ClaimsOf(t) == [iss |-> t.iss, id |-> t.id, user |-> t.user]

\* jwt.ParseWithClaims with the key function of Check: the token has to
\* parse, be signed with an HMAC method and the session secret, and not be
\* expired
ParseWithClaims(jwtToken, sessionSecret) ==
    IF jwtToken.kind # "jwt" THEN [err |-> "token is malformed", valid |-> FALSE, claims |-> ClaimsOf(jwtToken)]
    ELSE IF jwtToken.alg # "HS256" THEN [err |-> "ErrInvalidSigningMethod", valid |-> FALSE, claims |-> ClaimsOf(jwtToken)]
    ELSE IF jwtToken.key # sessionSecret THEN [err |-> "signature is invalid", valid |-> FALSE, claims |-> ClaimsOf(jwtToken)]
    ELSE IF jwtToken.expired THEN [err |-> "token is expired", valid |-> FALSE, claims |-> ClaimsOf(jwtToken)]
    ELSE [err |-> "nil", valid |-> TRUE, claims |-> ClaimsOf(jwtToken)]

\* Verify that lets an empty user id pass
VerifyAnyUser(c, iss) ==
    IF c.iss # iss THEN "ErrIssuerMismatch"
    ELSE IF StrLen(c.id) = 0 THEN "ErrInvalidSessionID"
    ELSE "nil"

\* (c Claims) Verify(issuer): the error it returns
Verify(c, iss) ==
    IF c.iss # iss THEN "ErrIssuerMismatch"
    ELSE IF StrLen(c.id) = 0 THEN "ErrInvalidSessionID"
    ELSE IF c.user = "" THEN "ErrInvalidUserID"
    ELSE "nil"

validateTokenInputs(userID, iss, sessionID) ==
    IF StrLen(userID) > 1000 THEN "ErrUserIDTooLong"
    ELSE IF StrLen(iss) > 1000 THEN "ErrIssuerTooLong"
    ELSE IF StrLen(sessionID) > 1000 THEN "ErrSessionIDTooLong"
    ELSE "nil"

\* CreateToken(sessionSecret, userID, issuer, sessionID, expiration): a token
\* signed now, so not expired
CreateToken(sessionSecret, userID, iss, sessionID) ==
    IF validateTokenInputs(userID, iss, sessionID) # "nil"
    THEN [err |-> validateTokenInputs(userID, iss, sessionID), token |-> EmptyString]
    ELSE [err |-> "nil", token |-> Jwt("HS256", sessionSecret, FALSE, iss, sessionID, userID)]

\* the headers of a request and of the response to it
Exchange(ra, rc, wa, wc) ==
    [reqAuthorization |-> ra, reqCookie |-> rc, wAuthorization |-> wa, wSetCookie |-> wc]

\* SetTokenHeader(w, r, token, expiration): Header.Set replaces the value,
\* r.AddCookie appends to the Cookie header, http.SetCookie adds a line
SetTokenHeader(x, token) ==
    Exchange(<< BearerSp, token >>,
             Append(x.reqCookie, HttpCookie(CookieName, token)),
             << BearerSp, token >>,
             Append(x.wSetCookie, HttpCookie(CookieName, token)))

\* ClearToken(w, req) for a request that has headers
ClearToken(x) ==
    Exchange(<< >>,
             << HttpCookie(CookieName, EmptyString) >>,
             << >>,
             Append(x.wSetCookie, HttpCookie(CookieName, EmptyString)))

\* SetCustomData(r, claims): the request, carrying the claims
SetCustomData(claims) == [nil |-> FALSE, claims |-> claims]

\* what Check returns, and the headers it leaves
Checked(authenticated, req, err, x) ==
    [authenticated |-> authenticated, req |-> req, err |-> err, x |-> x]

\* Check from the creation of the new token on
CheckCreated(x, claims, created) ==
    IF created.err # "nil" THEN Checked(FALSE, NilRequest, created.err, x)
    ELSE Checked(TRUE, SetCustomData(claims), "nil", SetTokenHeader(x, created.token))

\* Check from the parsed token on
CheckParsed(x, sessionSecret, iss, token) ==
    IF token.err # "nil" THEN Checked(FALSE, NilRequest, token.err, x)
    ELSE IF token.valid
    THEN IF Verify(token.claims, iss) # "nil"
         THEN Checked(FALSE, NilRequest, "ErrClaimsValidationFailed", x)
         ELSE CheckCreated(x, token.claims,
                           CreateToken(sessionSecret, token.claims.user, iss, token.claims.id))
    ELSE Checked(FALSE, NilRequest, "ErrJWTInvalid", x)

\* Check(w, r, sessionSecret, issuer, sessionAge)
Check(x, sessionSecret, iss) ==
    IF CookieAt(x.reqCookie, CookieName) # 0
    THEN CheckParsed(x, sessionSecret, iss,
                     ParseWithClaims(x.reqCookie[CookieAt(x.reqCookie, CookieName)].value,
                                     sessionSecret))
    ELSE IF SplitLen(x.reqAuthorization) # 2
    THEN Checked(FALSE, NilRequest, "ErrHeaderInvalid", x)
    ELSE CheckParsed(x, sessionSecret, iss,
                     ParseWithClaims(StringOf(SplitSecond(x.reqAuthorization)), sessionSecret))

\* GetTokenFromHeader and GetTokenFromHeaderFromRequest: what follows
\* "Bearer " at the start of the value, the empty string otherwise
GetTokenFromHeader(value) ==
    IF value # << >> /\ value[1] = BearerSp THEN StringOf(Tail(value)) ELSE EmptyString

\* req.Cookie(CookieName).Value; the empty string stands for no cookie too
CookieValue(cookies) ==
    IF CookieAt(cookies, CookieName) = 0 THEN EmptyString
    ELSE cookies[CookieAt(cookies, CookieName)].value

\* the secret of the server
SessionSecret == "secret"

Issuers == { "web-server-test", "web-server-wrong", TooLong }

\* the strings a client sends as its token
Tokens ==
    { Jwt(alg, key, expired, iss, id, user) :
        alg \in { "HS256", "RS256" }, key \in { SessionSecret, "another" },
        expired \in BOOLEAN, iss \in Issuers,
        id \in { "", "session", TooLong }, user \in { "", "123", TooLong } }
        \cup { Garbage, EmptyString }

\* a request as it arrives
Arrives(auth, cookie) == [auth |-> auth, cookie |-> cookie]

\* the requests that carry the token t: no header; "Bearer t"; t without
\* "Bearer "; "Bearer t Bearer t"; "Basic Bearer t"; t as the cookie; t in
\* the header behind a cookie that is no token; t as the cookie behind a
\* cookie of another name
Requests(t) ==
    { Arrives(<< >>, << >>),
      Arrives(<< BearerSp, t >>, << >>),
      Arrives(<< t >>, << >>),
      Arrives(<< BearerSp, t, BearerSp, t >>, << >>),
      Arrives(<< Lit("Basic "), BearerSp, t >>, << >>),
      Arrives(<< >>, << HttpCookie(CookieName, t) >>),
      Arrives(<< BearerSp, t >>, << HttpCookie(CookieName, Garbage) >>),
      Arrives(<< >>, << HttpCookie("other", Garbage), HttpCookie(CookieName, t) >>) }

\* the request has arrived and the response is new
Arrived(r) ==
    /\ given = r
    /\ reqAuthorization = r.auth
    /\ reqCookie = r.cookie
    /\ wAuthorization = << >>
    /\ wSetCookie = << >>
    /\ checked = [authenticated |-> FALSE, req |-> NilRequest, err |-> "nil"]
    /\ tokenCalls = << >>

InitCheck ==
    /\ \E t \in Tokens : \E r \in Requests(t) : Arrived(r)
    /\ issuer \in Issuers
    /\ pc = "ready"
    /\ EncoderIdle
    /\ SnakeIdle
    /\ StackIdle
    /\ RespondIdle
    /\ WriterIdle
    /\ RouterIdle

\* the headers are left as in x
Leaves(x) ==
    /\ reqAuthorization' = x.reqAuthorization
    /\ reqCookie' = x.reqCookie
    /\ wAuthorization' = x.wAuthorization
    /\ wSetCookie' = x.wSetCookie

\* Check has returned res
CheckReturns(res) ==
    /\ checked' = [authenticated |-> res.authenticated, req |-> res.req, err |-> res.err]
    /\ Leaves(res.x)

\* authenticated, req, err = Check(w, req, secret, issuer, sessionAge)
CallCheck ==
    /\ pc = "ready"
    /\ CheckReturns(Check(Exchange(reqAuthorization, reqCookie, wAuthorization, wSetCookie),
                          SessionSecret, issuer))
    /\ pc' = "Check"
    /\ UNCHANGED << given, issuer, tokenCalls, encoderVars, snakeVars, stackVars,
                    respondVars, writerVars, routerVars >>

NextCheck == CallCheck

SpecCheck == InitCheck /\ [][NextCheck]_vars

\* most calls of SetTokenHeader and ClearToken for one request
MaxTokenCalls == 3

\* the token a request arrives with, and the tokens set afterwards
OldToken == Jwt("HS256", SessionSecret, FALSE, "web-server-test", "session", "123")

NewTokens ==
    { Jwt("HS256", SessionSecret, FALSE, "web-server-test", "session", user) :
        user \in { "456", "789" } }

InitToken ==
    /\ \E r \in Requests(OldToken) : Arrived(r)
    /\ issuer = ""
    /\ pc = "ready"
    /\ EncoderIdle
    /\ SnakeIdle
    /\ StackIdle
    /\ RespondIdle
    /\ WriterIdle
    /\ RouterIdle

\* SetTokenHeader(w, req, token, expiration)
CallSetTokenHeader ==
    /\ Len(tokenCalls) < MaxTokenCalls
    /\ \E token \in NewTokens :
          /\ Leaves(SetTokenHeader(Exchange(reqAuthorization, reqCookie, wAuthorization,
                                            wSetCookie), token))
          /\ tokenCalls' = Append(tokenCalls, token)
    /\ pc' = "SetTokenHeader"
    /\ UNCHANGED << given, issuer, checked, encoderVars, snakeVars, stackVars,
                    respondVars, writerVars, routerVars >>

\* ClearToken(w, req)
CallClearToken ==
    /\ Len(tokenCalls) < MaxTokenCalls
    /\ Leaves(ClearToken(Exchange(reqAuthorization, reqCookie, wAuthorization, wSetCookie)))
    /\ tokenCalls' = Append(tokenCalls, EmptyString)
    /\ pc' = "ClearToken"
    /\ UNCHANGED << given, issuer, checked, encoderVars, snakeVars, stackVars,
                    respondVars, writerVars, routerVars >>

NextToken == CallSetTokenHeader \/ CallClearToken

SpecToken == InitToken /\ [][NextToken]_vars

(***************************************************************************)
(* Reading the text a call has written.                                    *)
(***************************************************************************)
\* how many objects and arrays are open before token i
TextDepth(toks, i) ==
    Cardinality({ j \in 1 .. (i - 1) : toks[j].t \in { "{", "[" } })
        - Cardinality({ j \in 1 .. (i - 1) : toks[j].t \in { "}", "]" } })

\* the text without blanks and line feeds
Significant(toks) == SelectSeq(toks, LAMBDA x : x.t \notin { "sp", "nl" })

\* toks is one JSON object, possibly followed by the encoder's line feed
IsObjectText(toks) ==
    /\ Len(toks) >= 2
    /\ toks[1] = LBrace
    /\ \E last \in { Len(toks) - 1, Len(toks) } :
          /\ toks[last] = RBrace
          /\ last = Len(toks) \/ toks[Len(toks)] = NL
          /\ \A j \in 2 .. last : TextDepth(toks, j) >= 1

\* toks is one JSON array followed by the encoder's line feed
IsArrayText(toks) ==
    /\ Len(toks) >= 3
    /\ toks[1] = LBrack
    /\ toks[Len(toks) - 1] = RBrack
    /\ toks[Len(toks)] = NL
    /\ \A j \in 2 .. (Len(toks) - 1) : TextDepth(toks, j) >= 1

\* where the keys of the outermost object are
KeyPositions(toks) ==
    { i \in 1 .. (Len(toks) - 1) :
        toks[i].t = "str" /\ toks[i + 1].t = ":" /\ TextDepth(toks, i) = 1 }

ObjectKeys(toks) == { toks[i].s : i \in KeyPositions(toks) }

\* the text of the value written under key k of the outermost object
ValueOfKey(toks, k) ==
    LET i == CHOOSE i \in KeyPositions(toks) : toks[i].s = k
        end == CHOOSE j \in (i + 2) .. Len(toks) :
                   /\ TextDepth(toks, j) = 1 /\ toks[j].t \in { ",", "}" }
                   /\ \A h \in (i + 2) .. (j - 1) :
                         ~(TextDepth(toks, h) = 1 /\ toks[h].t \in { ",", "}" })
    IN  Significant(SubSeq(toks, i + 2, end - 1))

\* where the objects that are the elements of the outermost array start
ElemStarts(toks) ==
    { i \in DOMAIN toks : toks[i] = LBrace /\ TextDepth(toks, i) = 1 }

\* the text of the n-th element of the outermost array
NthElem(toks, n) ==
    LET i == CHOOSE i \in ElemStarts(toks) :
                 Cardinality({ j \in ElemStarts(toks) : j < i }) = n - 1
        end == CHOOSE j \in i .. Len(toks) :
                   /\ toks[j] = RBrace /\ TextDepth(toks, j) = 2
                   /\ \A h \in i .. (j - 1) : ~(toks[h] = RBrace /\ TextDepth(toks, h) = 2)
    IN  SubSeq(toks, i, end)

(***************************************************************************)
(* What the claims speak of.                                               *)
(***************************************************************************)
IsRecord(v) ==
    \/ v.kind = "struct"
    \/ v.kind = "ptr" /\ v.items # << >> /\ v.items[1].kind = "struct"

\* the record itself, behind the pointer if there is one
RecordOf(v) == IF v.kind = "ptr" THEN v.items[1] ELSE v

\* The extractable fields of a record in declaration order, each with the
\* wire name the extractor gives it (how that name is derived is the subject
\* of C4): the public fields, those of an embedded record in its place.
RECURSIVE Extractable(_)
Extractable(fields) ==
    IF fields = << >> THEN << >>
    ELSE (IF ~IsExported(Head(fields).name) THEN << >>
          ELSE IF Head(fields).anon THEN Extractable(RecordOf(Head(fields).val).items)
          ELSE << [key |-> SnakeCase(Head(fields).name), val |-> Head(fields).val] >>)
         \o Extractable(Tail(fields))

WireNames(ex) == { ex[i].key : i \in DOMAIN ex }

\* the value of the last extractable field with wire name k
LastValue(ex, k) ==
    ex[CHOOSE i \in DOMAIN ex :
           ex[i].key = k /\ \A j \in DOMAIN ex : ex[j].key = k => j <= i].val

\* the object text holds exactly the keys keep, each once, with the values of ex
HoldsExactly(toks, ex, keep) ==
    /\ IsObjectText(toks)
    /\ ObjectKeys(toks) = keep
    /\ Cardinality(KeyPositions(toks)) = Cardinality(keep)
    /\ \A k \in keep : ValueOfKey(toks, k) = Marshal(LastValue(ex, k)).toks

Returned == ~ret.panic /\ ret.err = "nil"

DeclaredPublic(v) ==
    { RecordOf(v).items[i] : i \in { j \in DOMAIN RecordOf(v).items :
                                       IsExported(RecordOf(v).items[j].name) } }

\* C2, as claimed: JSONEncodeHierarchy on a record and a tree allow-list
\* writes one JSON object that holds exactly the fields whose wire name is a
\* key of the tree, whatever the record and the tree.
C2_TreeWritesObject ==
    (pc = "JSONEncodeHierarchy" /\ allowed.shape = "tree" /\ IsRecord(objects) /\ ~wfail) =>
        /\ ~ret.panic
        /\ ret.err = "nil" =>
              /\ IsObjectText(w)
              /\ ObjectKeys(w) = { jsonTagOf(f) : f \in DeclaredPublic(objects) }
                                     \cap DOMAIN allowed.sub

\* the keys the flat encoder may write for a record, with their texts
FlatPublic(v) ==
    { << e.key, Marshal(e.val).toks >> :
        e \in Range(Extractable(RecordOf(v).items)) }

HasHiddenField(v) ==
    \E i \in DOMAIN RecordOf(v).items : ~IsExported(RecordOf(v).items[i].name)

\* C3: whatever the allow-list, every key the flat encoder writes for a record
\* is the wire name of a public field and carries that field's value, and every
\* key the tree branch of the hierarchical encoder writes is that of a public
\* field: a non-public or underscore-prefixed field never appears.
C3_HiddenNeverAppear ==
    /\ (pc = "JSONEncode" /\ IsRecord(objects) /\ Returned) =>
          \A k \in ObjectKeys(w) : << k, ValueOfKey(w, k) >> \in FlatPublic(objects)
    /\ (pc = "JSONEncodeHierarchy" /\ allowed.shape = "flat" /\ IsRecord(objects) /\ Returned) =>
          \A k \in ObjectKeys(w) : << k, ValueOfKey(w, k) >> \in FlatPublic(objects)
    /\ (pc = "JSONEncodeHierarchy" /\ allowed.shape = "tree" /\ IsRecord(objects)) =>
          \A k \in ObjectKeys(w) : \E f \in DeclaredPublic(objects) : jsonTagOf(f) = k

\* a record with a non-public and an underscore-prefixed field was encoded
\* under an allow-list that lists the names of both
C3_Witness ==
    /\ pc = "JSONEncode" /\ IsRecord(objects) /\ Returned
    /\ \E i \in DOMAIN RecordOf(objects).items : RecordOf(objects).items[i].name = sSecret
    /\ \E i \in DOMAIN RecordOf(objects).items : RecordOf(objects).items[i].name = sHid
    /\ { kSecret, kHid } \subseteq Range(allowed.list)
    /\ w = << LBrace, RBrace, NL >>

\* the wire name the specification gives a field: the first component of its
\* json tag if it has one, else the normalized declared name
TagWireName(f) == IF f.tag # << >> THEN FirstComponent(f.tag) ELSE SnakeCase(f.name)

\* C4, as claimed: a public field of the record whose wire name, taken from
\* its json tag when it has one, is in the flat allow-list is written under
\* that wire name.
C4_TagIsWireName ==
    (pc = "JSONEncode" /\ IsRecord(objects) /\ Returned) =>
        \A f \in DeclaredPublic(objects) :
            (~f.anon /\ TagWireName(f) \in Range(allowed.list))
                => TagWireName(f) \in ObjectKeys(w)

SameType(a, b) ==
    [i \in DOMAIN a.items |->
        << a.items[i].name, a.items[i].tag, a.items[i].anon, a.items[i].val.kind >>]
    = [i \in DOMAIN b.items |->
        << b.items[i].name, b.items[i].tag, b.items[i].anon, b.items[i].val.kind >>]

Homogeneous(elems) == \A i, j \in DOMAIN elems : SameType(elems[i], elems[j])

\* C5: JSONEncode on a non-empty collection of records of one type fails only
\* if the sink fails, and otherwise writes a JSON array of as many objects as
\* there are elements, in their order, object i holding exactly the fields of
\* element i whose wire name is in the allow-list, with element i's values.
C5_CollectionUniform ==
    (pc = "JSONEncode" /\ objects.kind = "slice" /\ objects.items # << >>
        /\ Homogeneous(objects.items)) =>
        /\ ~ret.panic
        /\ (ret.err = "nil") <=> ~wfail
        /\ ret.err = "nil" =>
              /\ IsArrayText(w)
              /\ Cardinality(ElemStarts(w)) = Len(objects.items)
              /\ \A n \in DOMAIN objects.items :
                    /\ ObjectKeys(NthElem(w, n)) \subseteq Range(allowed.list)
                    /\ HoldsExactly(NthElem(w, n), Extractable(objects.items[n].items),
                           WireNames(Extractable(objects.items[n].items))
                               \cap Range(allowed.list))

\* a collection of two records of one type with different values was encoded
\* with one field kept and one removed
C5_Witness ==
    /\ pc = "JSONEncode" /\ objects.kind = "slice" /\ Returned
    /\ Len(objects.items) >= 2 /\ Homogeneous(objects.items)
    /\ objects.items[1] # objects.items[2]
    /\ ObjectKeys(NthElem(w, 2)) = { kId }

\* the public fields of the records embedded in v, with their wire names
EmbeddedChildren(v) ==
    UNION { Range(Extractable(f.val.items)) : f \in { g \in DeclaredPublic(v) : g.anon } }

C7_NilIsDefaultEncoding ==
    (pc = "JSONEncodeHierarchy" /\ allowed.shape = "nil") =>
        /\ ~ret.panic
        /\ w = EncoderEncode(wfail, Marshal(objects)).out
        /\ ret.err = EncoderEncode(wfail, Marshal(objects)).err

\* a record with fields the filtering encoders would rename or drop was
\* written through the nil allow-list
C7_Witness ==
    /\ pc = "JSONEncodeHierarchy" /\ allowed.shape = "nil" /\ Returned
    /\ IsRecord(objects)
    /\ sUserName \in ObjectKeys(w)

\* the call has written and returned what res says
SameOutcome(res) ==
    /\ w = res.out
    /\ ret.err = res.err
    /\ ret.panic = res.panic

\* C8: with a flat allow-list JSONEncodeHierarchy writes what JSONEncode
\* writes for the same data and list, and returns what it returns.
C8_FlatDelegates ==
    (pc = "JSONEncodeHierarchy" /\ allowed.shape = "flat") =>
        SameOutcome(JSONEncode(wfail, objects, allowed.list))

\* the hierarchical encoder filtered a record through a flat allow-list
C8_Witness ==
    /\ pc = "JSONEncodeHierarchy" /\ allowed.shape = "flat" /\ Returned
    /\ IsRecord(objects)
    /\ ObjectKeys(w) = { kId }
    /\ Cardinality(WireNames(Extractable(RecordOf(objects).items))) > 1

\* C9: with a tree allow-list that has no entries JSONEncodeHierarchy, given a
\* working sink, returns no error for any record and writes exactly {}.
C9_EmptyTreeEmptyObject ==
    (pc = "JSONEncodeHierarchy" /\ allowed.shape = "tree" /\ DOMAIN allowed.sub = {}
        /\ IsRecord(objects) /\ ~wfail) =>
        /\ Returned
        /\ w = << LBrace, RBrace >>

\* a record with two fields was encoded under the empty tree
C9_Witness ==
    /\ pc = "JSONEncodeHierarchy" /\ allowed.shape = "tree" /\ DOMAIN allowed.sub = {}
    /\ IsRecord(objects) /\ Len(RecordOf(objects).items) = 2
    /\ w = << LBrace, RBrace >>

\* C10: for an empty collection, nil or not, and any allow-list the flat
\* encoder returns no error and writes exactly [] (and the encoder's line
\* feed) to a working sink.
C10_EmptyCollection ==
    (pc = "JSONEncode" /\ objects.kind = "slice" /\ objects.items = << >>) =>
        /\ ~ret.panic
        /\ ~wfail => (ret.err = "nil" /\ w = << LBrack, RBrack, NL >>)

\* a nil slice was encoded under a non-empty allow-list
C10_Witness ==
    /\ pc = "JSONEncode" /\ objects = NilSlice /\ allowed.list # << >>
    /\ w = << LBrack, RBrack, NL >>

\* C11: with an allow-list that is neither nil, a []string nor an AllowedKeys
\* (an integer, a plain map) JSONEncodeHierarchy writes nothing to the sink and
\* returns a nil error, whatever the data and whether or not the sink works.
C11_OtherShapeWritesNothing ==
    (pc = "JSONEncodeHierarchy" /\ allowed.shape = "other") =>
        /\ w = << >>
        /\ ret.err = "nil"
        /\ ~ret.panic

\* a record that has the field a plain map names was given to the
\* hierarchical encoder with that map, and nothing was written
C11_Witness ==
    /\ pc = "JSONEncodeHierarchy" /\ allowed.shape = "other" /\ DOMAIN allowed.sub = { kId }
    /\ IsRecord(objects) /\ ~wfail
    /\ \E i \in DOMAIN RecordOf(objects).items : RecordOf(objects).items[i].name = sID
    /\ w = << >> /\ Returned

\* C12, as claimed: for every identifier x, SnakeCase(SnakeCase(x)) equals
\* SnakeCase(x).
C12_SnakeCaseIdempotent ==
    (pc = "SnakeCase" /\ Len(results) >= 2) => results[2] = results[1]

\* a camel-case word, in lower case at the start of an identifier or capitalised
CamelWords == { << "t", "e", "s", "t" >>, << "C", "a", "m", "e", "l" >>, << "K", "e", "y" >> }

Acronyms == { << "A", "P", "I" >>, << "J", "S", "O", "N" >>, << "I", "P" >>, << "U", "R", "L" >> }

IsCapitalised(word) == word # << >> /\ IsLu(word[1])

\* the words that are not empty, joined by underscores
Segments(words) == Join(SelectSeq(words, LAMBDA x : x # << >>), << "_" >>)

\* C13: an acronym (API, JSON, IP, URL) that follows a camel-case word is a
\* lower-case segment of its own in the result of SnakeCase, also when a
\* capitalised word follows it, and so is an acronym at the start of an
\* identifier that a capitalised word follows.
C13_AcronymSegments ==
    (pc = "SnakeCase") =>
        \A first, second \in CamelWords \cup { << >> }, acr \in Acronyms,
           last \in { x \in CamelWords : IsCapitalised(x) } \cup { << >> } :
            (/\ str = first \o second \o acr \o last
             /\ (first = << >> => second = << >>)
             /\ (second # << >> => IsCapitalised(second))
             /\ (first = << >> => last # << >>))
                => results[1] = Segments(<< ToLower(first), ToLower(second),
                                            ToLower(acr), ToLower(last) >>)

\* testCamelAPI was given to SnakeCase and test_camel_api came back
C13_Witness ==
    /\ pc = "SnakeCase"
    /\ str = << "t", "e", "s", "t", "C", "a", "m", "e", "l", "A", "P", "I" >>
    /\ results[1] = << "t", "e", "s", "t", "_", "c", "a", "m", "e", "l", "_", "a", "p", "i" >>

IsAlphanumeric(c) == IsLl(c) \/ IsLu(c) \/ IsDigit(c)

\* C14, as claimed: SnakeCase of the empty string and of a string made only of
\* characters that are neither letters nor digits is the empty string.
C14_SeparatorsOnlyGiveEmpty ==
    (pc = "SnakeCase" /\ \A i \in DOMAIN str : ~IsAlphanumeric(str[i])) =>
        results[1] = << >>

\* C15, as claimed: given data that is neither a record nor a collection, the
\* flat encoder returns an error to its caller and writes nothing.
C15_NonRecordReturnsError ==
    (pc = "JSONEncode" /\ objects \in Scalars) =>
        /\ ~ret.panic
        /\ ret.err # "nil"
        /\ w = << >>

\* C16, as claimed: when the sink fails the writes of a call that has
\* something to write, the call returns the sink's error, in the flat encoder
\* and in the hierarchical encoder with a nil, a flat and a tree allow-list.
C16_SinkErrorReturned ==
    /\ (pc = "JSONEncode" /\ wfail /\ JSONEncode(FALSE, objects, allowed.list).out # << >>)
          => ret.err = "write"
    /\ (pc = "JSONEncodeHierarchy" /\ wfail
          /\ JSONEncodeHierarchy(FALSE, objects, allowed).out # << >>)
          => ret.err = "write"

Served == pc = "Wrap" /\ trace # << >>

\* the middlewares that were on the stack at the last Wrap
Wrapped == SubSeq(middlewares, 1, wrapLen)

Entered(id) == [ev |-> "enter", id |-> id]

\* C18: after Use(m1), ..., Use(mn) the handle Wrap(h) returns enters, for a
\* request, m1 first, then m2, ..., then mn and h last, each once, when every
\* middleware calls its next handle; with no middleware it enters h alone.
C18_WrapOrder ==
    (Served /\ \A i \in DOMAIN Wrapped : Wrapped[i].kind = "middleware") =>
        trace = [i \in 1 .. wrapLen + 1 |->
                    IF i <= wrapLen THEN Entered(Wrapped[i].id) ELSE Entered("hn")]

\* first, second and third were used in this order and a request went
\* through all of them and the handle
C18_Witness ==
    /\ Served
    /\ Wrapped = << Calling("first"), Calling("second"), Calling("third") >>
    /\ Len(trace) = 4 /\ trace[4] = Entered("hn")

\* the place on the stack of the first middleware made by
\* StandardHandlerToMiddleware
FirstStandard ==
    CHOOSE k \in DOMAIN Wrapped :
        /\ Wrapped[k].kind = "standard"
        /\ \A j \in 1 .. k - 1 : Wrapped[j].kind # "standard"

\* C19: a middleware made by StandardHandlerToMiddleware(next) calls
\* next.ServeHTTP once for a request and never the handle it wraps: the
\* middlewares used after it and the final handle are not entered.
C19_StandardStopsChain ==
    (Served /\ \E k \in DOMAIN Wrapped : Wrapped[k].kind = "standard") =>
        /\ Len(trace) = FirstStandard
        /\ trace[FirstStandard] = [ev |-> "ServeHTTP", id |-> Wrapped[FirstStandard].id]
        /\ \A i \in 1 .. FirstStandard - 1 : trace[i] = Entered(Wrapped[i].id)
        /\ \A i \in DOMAIN trace : trace[i] # Entered("hn")

\* a converted handler was used between two middlewares: the request went
\* through the first and ended in the handler's ServeHTTP
C19_Witness ==
    /\ Served
    /\ Wrapped = << Calling("first"), Standard("next"), Calling("second") >>
    /\ trace = << Entered("first"), [ev |-> "ServeHTTP", id |-> "next"] >>

\* the places in writer of the calls of op
CallsOf(op) == { i \in DOMAIN writer : writer[i].op = op }

\* C20, as claimed: over all the calls of RespondWith made for one request
\* the ResponseWriter receives at most one status header and at most one
\* body, the header before the body.
C20_SingleResponse ==
    (pc = "RespondWith") =>
        /\ Cardinality(CallsOf("WriteHeader")) <= 1
        /\ Cardinality(CallsOf("Write")) <= 1
        /\ \A i \in CallsOf("Write") : \E j \in CallsOf("WriteHeader") : j < i

\* the calls the latest call of RespondWith made on the ResponseWriter
LastCalls == SubSeq(writer, call.from + 1, Len(writer))

\* data encoding/json has no representation for: a channel, or a record one
\* of whose written fields is a channel
HoldsChan(v) ==
    \/ v.kind = "chan"
    \/ v.kind = "struct" /\ \E i \in DOMAIN v.items : v.items[i].val.kind = "chan"

\* C21: a call of RespondWith whose status is neither 204 nor 304 and whose
\* data cannot be serialized sets Content-Type to application/json;
\* charset=utf-8, writes the status 500 and the body
\* {"error":"failed to encode response"}, and makes no other call: the
\* status it was given is not written and nothing of the data is.
C21_UnserializableGives500 ==
    (pc = "RespondWith" /\ HoldsChan(call.data) /\ call.status \notin { 204, 304 }) =>
        LastCalls = << HeaderSet("Content-Type", ContentTypeJSON),
                       WriteHeader(500),
                       Write(FailedToEncode) >>

\* a record whose first field can be written and whose second is a channel
\* was given with the status 200, and the writer was told 500
C21_Witness ==
    /\ pc = "RespondWith"
    /\ call.status = 200
    /\ call.data = StructV(<< fID(1), Field(sCh, kCh, FALSE, ChanV) >>)
    /\ \E i \in DOMAIN LastCalls : LastCalls[i] = WriteHeader(500)

\* the places in calls of the calls of WriteHeader
HeaderCalls == { i \in DOMAIN calls : calls[i].call.op = "WriteHeader" }

\* the Status the i-th call found
StatusBefore(i) == IF i = 1 THEN 0 ELSE calls[i - 1].after

\* the data of the calls of Write among cs, one after the other
RECURSIVE WrittenData(_)
WrittenData(cs) ==
    IF cs = << >> THEN << >>
    ELSE (IF Head(cs).call.op = "Write" THEN Head(cs).call.body ELSE << >>)
             \o WrittenData(Tail(cs))

C23_PanicCaptured ==
    \A i \in DOMAIN served :
        served[i].h # "return" =>
            /\ propagated[i] = NoPanic
            /\ \E j \in DOMAIN log[i] : log[i][j] = "panic"

\* the jwt_token cookies the request arrived with, in their order
TokenCookies == SelectSeq(given.cookie, LAMBDA c : c.name = CookieName)

\* the places of "Bearer " in the Authorization header the request arrived with
Bearers == { i \in DOMAIN given.auth : given.auth[i] = BearerSp }

\* the request arrived without a token cookie, and its Authorization header
\* is missing, has no "Bearer " or has more than one
NoTokenSent == TokenCookies = << >> /\ Cardinality(Bearers) # 1

\* t is the string the request offers as its token: the value of its first
\* token cookie, or else all that follows "Bearer " in the header
Offers(t) ==
    IF TokenCookies # << >> THEN t = TokenCookies[1].value
    ELSE /\ Cardinality(Bearers) = 1
         /\ Len(given.auth) - 1 \in Bearers
         /\ t = given.auth[Len(given.auth)]

\* t is signed by this server with an HMAC method, has not expired, and its
\* claims are those of the issuer, with a session id and a user id
Verified(t) ==
    /\ t.kind = "jwt"
    /\ t.alg = "HS256"
    /\ t.key = SessionSecret
    /\ ~t.expired
    /\ t.iss = issuer
    /\ t.id # ""
    /\ t.user # ""

\* a new token cannot be created from the claims of t for the issuer
Uncreatable(t) == TooLong \in { t.user, t.id, issuer }

\* C24: Check returns authenticated = true only with a nil error and a
\* request that carries the claims of a verified token the request offered;
\* otherwise it returns false, a nil request and an error, and the response
\* has no token; and it returns false whenever no token was sent, the token
\* offered is not a verified one, or no new token can be created.
C24_CheckAllOrNothing ==
    (pc = "Check") =>
        /\ checked.authenticated =>
              /\ checked.err = "nil"
              /\ ~checked.req.nil
              /\ \E t \in Tokens :
                    Offers(t) /\ Verified(t) /\ checked.req.claims = ClaimsOf(t)
        /\ ~checked.authenticated =>
              /\ checked.req.nil
              /\ checked.err # "nil"
              /\ wAuthorization = << >>
              /\ wSetCookie = << >>
        /\ (NoTokenSent \/ \E t \in Tokens : Offers(t) /\ (~Verified(t) \/ Uncreatable(t))) =>
              ~checked.authenticated

\* a verified token whose user id is too long for a new token: Check
\* returned the error of the creation and set nothing on the response
C24_Witness ==
    /\ pc = "Check"
    /\ given = Arrives(<< BearerSp, Jwt("HS256", SessionSecret, FALSE, "web-server-test",
                                        "session", TooLong) >>, << >>)
    /\ issuer = "web-server-test"
    /\ checked = [authenticated |-> FALSE, req |-> NilRequest, err |-> "ErrUserIDTooLong"]
    /\ wAuthorization = << >>

\* the token of the latest call: that of SetTokenHeader, empty for ClearToken
LastToken == tokenCalls[Len(tokenCalls)]

\* C25, as claimed: after any calls of SetTokenHeader and ClearToken the
\* token read from the Authorization header of the response, from that of
\* the request and from the jwt_token cookie of the request is the token of
\* the latest call, whatever the request arrived with.
C25_LastTokenEverywhere ==
    tokenCalls # << >> =>
        /\ GetTokenFromHeader(wAuthorization) = LastToken
        /\ GetTokenFromHeader(reqAuthorization) = LastToken
        /\ CookieValue(reqCookie) = LastToken

\* the tree allows keys and says nothing more about any of them
PlainTree ==
    /\ allowed.shape = "tree"
    /\ \A k \in DOMAIN allowed.sub : allowed.sub[k] = AllowNil

\* the keys of the object flat has written
FlatKeys(flat) == ObjectKeys(flat.out)

\* C26, as claimed: for a record and a tree that maps each key of K to nil,
\* JSONEncodeHierarchy writes an object with the keys of the object
\* JSONEncode writes for the record and the allow-list K.
C26_TreeKeysAreFlatKeys ==
    (pc = "JSONEncodeHierarchy" /\ PlainTree /\ IsRecord(objects) /\ ~wfail
        /\ JSONEncode(FALSE, objects, SortedKeys(DOMAIN allowed.sub)).err = "nil"
        /\ ~JSONEncode(FALSE, objects, SortedKeys(DOMAIN allowed.sub)).panic) =>
        /\ Returned
        /\ IsObjectText(w)
        /\ ObjectKeys(w) = FlatKeys(JSONEncode(FALSE, objects, SortedKeys(DOMAIN allowed.sub)))

\* the wire names that more than one extractable field has
Shared(ex) ==
    { k \in WireNames(ex) : Cardinality({ i \in DOMAIN ex : ex[i].key = k }) > 1 }

\* the value itself, when the map holds a reference to it
Referred(v, to) == v = to \/ v = PtrV(to)

\* the name k of the extracted fields ex is once in the mapping m, with the
\* value of the last field of that name, and that is the value written
LastWins(ex, m, k) ==
    /\ Referred(m[k], LastValue(ex, k))
    /\ (Returned /\ k \in Range(allowed.list)) =>
          /\ Cardinality({ i \in KeyPositions(w) : w[i].s = k }) = 1
          /\ ValueOfKey(w, k) = Marshal(LastValue(ex, k)).toks

\* the mapping m extracted from the fields ex has each name once
AllLastWins(ex, m) ==
    /\ DOMAIN m = WireNames(ex)
    /\ \A k \in Shared(ex) : LastWins(ex, m, k)

\* C27: when several fields of a record, embedded ones included, have one
\* wire name, the extracted mapping has that name once and holds for it the
\* value of the last of them in declaration order, and that value is the
\* one the flat encoder writes when the name is allowed.
C27_LastWriteWins ==
    (pc = "JSONEncode" /\ IsRecord(objects) /\ ~jsonMap(objects).panic) =>
        AllLastWins(Extractable(RecordOf(objects).items), jsonMap(objects).m)

\* a record of two embedded records that each have an ID was encoded with
\* id allowed: the ID of the second one is written
C27_Witness ==
    /\ pc = "JSONEncode" /\ Returned
    /\ IsRecord(objects)
    /\ Len(RecordOf(objects).items) = 2
    /\ RecordOf(objects).items[1].name = sInner
    /\ RecordOf(objects).items[2].name = sBase
    /\ kId \in ObjectKeys(w)
    /\ ValueOfKey(w, kId) = << Num(8) >>

\* the removal set of a collection: the wire names of its first element
\* that the allow-list does not name
RemovalSet(elems, list) == WireNames(Extractable(elems[1].items)) \ Range(list)

\* C28: for a non-empty collection JSONEncode takes the removal set from
\* the first element alone; element i is written with exactly those of its
\* own keys that are not in that set, whether or not the allow-list names
\* them.
C28_RemovalSetFromFirst ==
    (pc = "JSONEncode" /\ objects.kind = "slice" /\ objects.items # << >> /\ Returned) =>
        /\ IsArrayText(w)
        /\ Cardinality(ElemStarts(w)) = Len(objects.items)
        /\ \A n \in DOMAIN objects.items :
              ObjectKeys(NthElem(w, n)) =
                  WireNames(Extractable(objects.items[n].items))
                      \ RemovalSet(objects.items, allowed.list)

\* the second element has a field the first has not, the allow-list does
\* not name it, and it was written
C28_Witness ==
    /\ pc = "JSONEncode" /\ objects.kind = "slice" /\ Returned
    /\ Len(objects.items) = 2
    /\ kUserName \notin WireNames(Extractable(objects.items[1].items))
    /\ kUserName \notin Range(allowed.list)
    /\ kUserName \in ObjectKeys(NthElem(w, 2))
    /\ kEmail \in RemovalSet(objects.items, allowed.list)
    /\ kEmail \notin ObjectKeys(NthElem(w, 1))

\* the names encoding/json gives the fields of a record of public, tagged,
\* non-embedded fields
DefaultKeys(v) == { FirstComponent(v.items[i].tag) : i \in DOMAIN v.items }

\* the allowed wire names of the record whose value is itself a record
AllowedRecords ==
    { k \in WireNames(Extractable(RecordOf(objects).items)) \cap Range(allowed.list) :
        LastValue(Extractable(RecordOf(objects).items), k).kind = "struct" }

\* C29: JSONEncode filters the top level only: an allowed field whose value
\* is a record is written as encoding/json writes that record, with all of
\* its fields, none of which the allow-list has to name.
C29_NestedUnfiltered ==
    (pc = "JSONEncode" /\ IsRecord(objects) /\ Returned) =>
        \A k \in AllowedRecords :
            /\ k \in ObjectKeys(w)
            /\ ValueOfKey(w, k) =
                  Marshal(LastValue(Extractable(RecordOf(objects).items), k)).toks
            /\ ObjectKeys(ValueOfKey(w, k)) =
                  DefaultKeys(LastValue(Extractable(RecordOf(objects).items), k))

\* nested was allowed, foo and bar were not, and both are written inside it
C29_Witness ==
    /\ pc = "JSONEncode" /\ IsRecord(objects) /\ Returned
    /\ kNested \in AllowedRecords
    /\ { kFoo, kBar } \cap Range(allowed.list) = {}
    /\ ObjectKeys(ValueOfKey(w, kNested)) = { kFoo, kBar }

\* the fields of the record the tree has an entry for
TreeFields ==
    { i \in DOMAIN RecordOf(objects).items :
        jsonTagOf(RecordOf(objects).items[i]) \in DOMAIN allowed.sub }

\* what the recursive call for field i comes back with
SubCall(i) ==
    JSONEncodeHierarchy(FALSE, RecordOf(objects).items[i].val,
                        allowed.sub[jsonTagOf(RecordOf(objects).items[i])])

\* field i is the first field the tree has an entry for whose encoding does
\* not succeed, and it returns an error
FirstFailure(i) ==
    /\ i \in TreeFields
    /\ \A j \in TreeFields :
          j < i => (IsExported(RecordOf(objects).items[j].name)
                       /\ SubCall(j).err = "nil" /\ ~SubCall(j).panic)
    /\ IsExported(RecordOf(objects).items[i].name)
    /\ ~SubCall(i).panic
    /\ SubCall(i).err # "nil"

\* C30: in the tree branch, when the recursive call for an allowed field
\* returns an error, JSONEncodeHierarchy returns that error and has written
\* nothing to its sink, whatever fields come after.
C30_TreeErrorShortCircuits ==
    (pc = "JSONEncodeHierarchy" /\ allowed.shape = "tree" /\ IsRecord(objects)) =>
        \A i \in DOMAIN RecordOf(objects).items :
            FirstFailure(i) =>
                /\ ~ret.panic
                /\ ret.err = SubCall(i).err
                /\ w = << >>

\* the tree names id and ch, the record has an ID and then a channel Ch:
\* the error of encoding Ch is returned and the text of ID is not written
C30_Witness ==
    /\ pc = "JSONEncodeHierarchy" /\ allowed.shape = "tree" /\ IsRecord(objects)
    /\ ~wfail
    /\ DOMAIN allowed.sub = { kId, kCh }
    /\ Len(RecordOf(objects).items) = 2
    /\ RecordOf(objects).items[1] = fID(1)
    /\ FirstFailure(2)
    /\ ret.err = "marshal"
    /\ w = << >>

====
